---- MODULE Spec2Model ----
(***************************************************************************)
(* A model of the test-run coordination plugin of django-utils-lib:        *)
(* the file-backed, lock-guarded CollectedTests store                      *)
(* (testing/pytest_plugin.py), the requirement validator                   *)
(* (testing/utils.py) and the plugin's collection and result hooks.        *)
(***************************************************************************)
EXTENDS Integers, Sequences, FiniteSets, TLC

(* ------------------------------ bounds -------------------------------- *)

\* Processes that hold a handle on one store (xdist workers).
NProcs == 2
\* Store calls each process issues in the concurrent store specification.
MaxOps == 2
\* Store calls the single process issues in the sequential specification.
MaxSoloOps == 2
\* Tests discovered by a run.
MaxItems == 3
\* Tests discovered by a run of one process alone.
MaxSoloItems == 2
\* Tags of one `requirements` marker.
MaxTags == 3
\* Worker processes of a distributed run.
NWorkers == 2
\* Lifecycle events a process receives after its plugin is registered.
MaxEvents == 2
\* Arguments on the command line.
MaxArgs == 4
\* Keys of the object handed to object_to_multipart_dict.
MaxKeys == 2

Procs == 1..NProcs
NodeNames == <<"t1", "t2", "t3", "t4", "t5">>
\* Keys the store API specifications draw their arguments from.
Keys == {"t1", "t2"}

(* --------------------------- the data model --------------------------- *)

\* TestStatus = Literal["PASS", "FAIL", ""]
TestStatus == {"PASS", "FAIL", ""}

\* One CollectedTestMetadata dict.
Meta(n, d, r, s) == [node_id |-> n, doc_string |-> d, requirements |-> r, status |-> s]

\* The value standing for "no metadata" (Python None) in a call or a result.
NoItem == Meta("", <<>>, <<>>, "")

\* An empty CollectedTestsMapping ({}).
EmptyMapping == [k \in {} |-> NoItem]

\* json.dump of a mapping: a JSON object, one member per key.
JsonDump(m) == {[key |-> k, value |-> m[k]] : k \in DOMAIN m}

\* json.load of a JSON object: the dict of its members.
JsonLoad(text) ==
    [k \in {mem.key : mem \in text} |-> (CHOOSE mem \in text : mem.key = k).value]

\* SetItem as a bug: the dict is rebuilt from the new entry alone.
SetItemAlone(m, id, item) == [k \in {id} |-> item]

\* updated_data[node_id] = item
SetItem(m, id, item) == [k \in DOMAIN m \cup {id} |-> IF k = id THEN item ELSE m[k]]

\* SetStatus as a bug: a status already set is kept.
SetStatusKeepsFirst(m, id, s) ==
    [m EXCEPT ![id] = [m[id] EXCEPT !.status = IF @ = "" THEN s ELSE @]]

\* updated_data[node_id]["status"] = updated_status  (KeyError decided by the caller)
SetStatus(m, id, s) == [m EXCEPT ![id] = [m[id] EXCEPT !.status = s]]

\* The backing file: missing, opened for writing and still empty, or written.
NoFile == [exists |-> FALSE, complete |-> FALSE, text |-> {}]
Truncated == [exists |-> TRUE, complete |-> FALSE, text |-> {}]
Written(m) == [exists |-> TRUE, complete |-> TRUE, text |-> JsonDump(m)]

\* The mapping a complete file holds ({} when the file is missing).
Stored(f) == IF f.exists /\ f.complete THEN JsonLoad(f.text) ELSE EmptyMapping

VARIABLES
    file,      \* test.temp.json
    lock,      \* holder of test.temp.json.lock (0: free)
    pc,        \* pc[p]: where process p is inside its store call
    call,      \* call[p]: the store call p is in (or made last)
    data,      \* data[p]: the local dict returned by _get_data (updated_data)
    ret,       \* ret[p]: outcome of p's last finished call
    hist,      \* hist[p]: p's finished calls, in call order
    pre,       \* pre[p]: the file when p's current call started
    opsLeft,   \* opsLeft[p]: store API calls p may still issue
    pool,      \* the calls the store's clients issue in this run
    items,     \* the discovered tests (node ids), in collection order
    mandate,   \* the ini value mandate_requirement_markers
    markers,   \* markers[t]: the args of t's closest `requirements` marker
    docs,      \* docs[t]: item.obj.__doc__ (<<>> for None)
    phase,     \* phase[p]: where the plugin on p is in the run
    idx,       \* idx[p]: index of the next item of the collection loop
    errors,    \* errors[p]: the errors list of the collection hook
    ran,       \* tests whose run protocol has started
    report,    \* report[p]: the TestReport last handed to the plugin on p
    reporting, \* the plugin's reporting_config (NoReporting: None)
    csv,       \* the file at csv_export_path
    vin,       \* the arguments of a validate_requirement_tagging call
    vout,      \* what that call returned
    is_running_on_worker, \* is_running_on_worker[p]: the plugin's flag on p
    opened,    \* the processes that have opened csv_export_path for writing
    session_config, \* session_config[n]: the session fields set on n's pytest Config
    workerinput,    \* workerinput[n]: n's config.workerinput (absent on the controller)
    plugin,    \* plugin[n]: the CustomPytestPlugin registered on n
    stage,     \* stage[n]: where process n is in its lifecycle
    events,    \* events[n]: lifecycle events n may still receive
    uuids,     \* the uuid4 calls made so far: who made them and what they gave
    env,       \* os.environ and the ini values the debugger settings read
    listens,   \* listens[n]: how often debugpy.listen has bound a listener on n
    acc,       \* the last get_internal_shared_config call: where, and its outcome
    argv,      \* sys.argv
    args_to_expand, \* the context manager's args_to_expand
    original_args,  \* the context manager's original_args
    ctx,       \* where the program is with respect to the `with` block
    http,       \* a call of serve_static_path: the server's config, the request, the arguments
    resp,      \* what the call returned or raised, and the functions it called
    obj,       \* the object handed to object_to_multipart_dict
    flat       \* what object_to_multipart_dict returned

storeVars == <<file, lock, pc, call, data, ret, hist, pre>>
apiVars == <<opsLeft, pool>>
runVars == <<items, mandate, markers, docs, phase, idx, errors, ran, report, reporting, csv,
             is_running_on_worker, opened>>
valVars == <<vin, vout>>
lifeVars == <<session_config, workerinput, plugin, stage, events, uuids, env, listens, acc>>
cliVars == <<argv, args_to_expand, original_args, ctx>>
httpVars == <<http, resp>>
formVars == <<obj, flat>>
restVars == <<lifeVars, cliVars, httpVars, formVars>>
vars == <<file, lock, pc, call, data, ret, hist, pre, opsLeft, pool,
          items, mandate, markers, docs, phase, idx, errors, ran, report, reporting, csv,
          vin, vout, is_running_on_worker, opened,
          session_config, workerinput, plugin, stage, events, uuids, env, listens, acc,
          argv, args_to_expand, original_args, ctx, http, resp, obj, flat>>

(* ------------------------- strings and tags --------------------------- *)

\* A marker argument: a Python str (its code points) or a value of another type.
Str(chars) == [str |-> TRUE, chars |-> chars]
NonStr == [str |-> FALSE, chars |-> <<>>]

REQ_001_001 == Str(<<82, 69, 81, 45, 48, 48, 49, 45, 48, 48, 49>>)
REQ_001_002 == Str(<<82, 69, 81, 45, 48, 48, 49, 45, 48, 48, 50>>)
REQ_004_001 == Str(<<82, 69, 81, 45, 48, 48, 52, 45, 48, 48, 49>>)
REQ_005_002 == Str(<<82, 69, 81, 45, 48, 48, 53, 45, 48, 48, 50>>)
\* "REQ-001-001x": re.match anchors at the start only.
REQ_001_001x == Str(<<82, 69, 81, 45, 48, 48, 49, 45, 48, 48, 49, 120>>)
\* "REQ-01-001": a digit group too short.
REQ_01_001 == Str(<<82, 69, 81, 45, 48, 49, 45, 48, 48, 49>>)
Hello == Str(<<72, 101, 108, 108, 111>>)
NA == Str(<<78, 65>>)

\* Docstrings: " doc\n" and "doc" (item.obj.__doc__), None is <<>> after `or ""`.
DocRaw == <<32, 100, 111, 99, 10>>
DocClean == <<100, 111, 99>>

(* --------------------------- the store calls --------------------------- *)

GetCall(k) == [op |-> "get", id |-> k, item |-> NoItem, status |-> ""]
SetCall(k, m) == [op |-> "set", id |-> k, item |-> m, status |-> ""]
UpdateCall(k, s) == [op |-> "update_status", id |-> k, item |-> NoItem, status |-> s]
SnapshotCall == [op |-> "snapshot", id |-> "", item |-> NoItem, status |-> ""]
NoCall == [op |-> "none", id |-> "", item |-> NoItem, status |-> ""]

\* The metadata records the API specifications pass to set.
Metas ==
    {Meta(n, <<>>, <<>>, "") : n \in Keys}
    \cup {Meta(n, DocClean, <<REQ_001_001>>, "PASS") : n \in Keys}

\* The calls concurrent clients issue: collection writes, result updates,
\* lookups and the report's snapshot.
WorkerCalls ==
    {GetCall(k) : k \in Keys}
    \cup {SetCall(k, Meta(k, <<>>, <<>>, "")) : k \in Keys}
    \cup {UpdateCall(k, "PASS") : k \in Keys}
    \cup {SnapshotCall}

\* Every call of the API over the bounded argument sets.
ApiCalls ==
    {GetCall(k) : k \in Keys}
    \cup {SetCall(k, m) : k \in Keys, m \in Metas}
    \cup {UpdateCall(k, s) : k \in Keys, s \in {"PASS", "FAIL"}}
    \cup {SnapshotCall}

\* Outcomes of a call.
Ok(item, map) == [kind |-> "ok", item |-> item, map |-> map]
Raised(kind) == [kind |-> kind, item |-> NoItem, map |-> EmptyMapping]
NoRet == [kind |-> "none", item |-> NoItem, map |-> EmptyMapping]

\* A finished call as recorded in hist.
Done(c, r) == [call |-> c, kind |-> r.kind]

(* ------------------------- CollectedTests steps ------------------------ *)

\* LockFree as a bug: the lock file excludes nobody.
LockIgnored(p) == TRUE

\* `with self.file_lock:` blocks until no other process holds the lock file.
LockFree(p) == lock = 0

\* A call starts: every operation begins with _get_data().
Begin(p, c) ==
    /\ pc[p] = "idle"
    /\ call' = [call EXCEPT ![p] = c]
    /\ pre' = [pre EXCEPT ![p] = file]
    /\ pc' = [pc EXCEPT ![p] = "acq"]

\* _get_data: `with self.file_lock:` entered.
Acquire(p) ==
    /\ pc[p] = "acq"
    /\ LockFree(p)
    /\ lock' = p
    /\ pc' = [pc EXCEPT ![p] = "read"]
    /\ UNCHANGED <<file, call, data, ret, hist, pre, apiVars, runVars, valVars, restVars>>

\* ReadResult as a bug: no os.path.exists check before open().
ReadResultNoExistsCheck(f) ==
    IF ~f.exists THEN Raised("FileNotFoundError")
    ELSE IF f.complete THEN Ok(NoItem, JsonLoad(f.text))
    ELSE Raised("JSONDecodeError")

\* What _get_data's body yields: {} for a missing file, json.load otherwise,
\* which raises JSONDecodeError on a file that is opened for writing and empty.
ReadResult(f) ==
    IF ~f.exists THEN Ok(NoItem, EmptyMapping)
    ELSE IF f.complete THEN Ok(NoItem, JsonLoad(f.text))
    ELSE Raised("JSONDecodeError")

\* _get_data: the body of the with block.
Read(p) ==
    /\ pc[p] = "read"
    /\ ret' = [ret EXCEPT ![p] = ReadResult(file)]
    /\ data' = [data EXCEPT ![p] = ReadResult(file).map]
    /\ pc' = [pc EXCEPT ![p] = "rel"]
    /\ UNCHANGED <<file, lock, call, hist, pre, apiVars, runVars, valVars, restVars>>

\* AfterRead as a bug: update_test_status creates the entry it does not find.
AfterReadUpsert(c, r) ==
    IF r.kind # "ok" THEN [ret |-> r, data |-> r.map, write |-> FALSE]
    ELSE IF c.op = "get" THEN
        [ret |-> IF c.id \in DOMAIN r.map THEN Ok(r.map[c.id], EmptyMapping)
                 ELSE Raised("KeyError"),
         data |-> r.map, write |-> FALSE]
    ELSE IF c.op = "set" THEN
        [ret |-> NoRet, data |-> SetItem(r.map, c.id, c.item), write |-> TRUE]
    ELSE IF c.op = "update_status" THEN
        [ret |-> NoRet, data |-> SetItem(r.map, c.id, Meta(c.id, <<>>, <<>>, c.status)),
         write |-> TRUE]
    ELSE [ret |-> Ok(NoItem, r.map), data |-> r.map, write |-> FALSE]

\* What the caller of _get_data does with the dict, up to its next lock
\* acquisition: [outcome, dict', continue to the write].
AfterRead(c, r) ==
    IF r.kind # "ok" THEN [ret |-> r, data |-> r.map, write |-> FALSE]
    ELSE IF c.op = "get" THEN
        [ret |-> IF c.id \in DOMAIN r.map THEN Ok(r.map[c.id], EmptyMapping)
                 ELSE Raised("KeyError"),
         data |-> r.map, write |-> FALSE]
    ELSE IF c.op = "set" THEN
        [ret |-> NoRet, data |-> SetItem(r.map, c.id, c.item), write |-> TRUE]
    ELSE IF c.op = "update_status" THEN
        IF c.id \in DOMAIN r.map
        THEN [ret |-> NoRet, data |-> SetStatus(r.map, c.id, c.status), write |-> TRUE]
        ELSE [ret |-> Raised("KeyError"), data |-> r.map, write |-> FALSE]
    ELSE [ret |-> Ok(NoItem, r.map), data |-> r.map, write |-> FALSE]

\* Release as a bug: a lookup that fails with KeyError leaves the lock held.
ReleaseUnlessNotFound(p) ==
    LET a == AfterRead(call[p], ret[p]) IN
    /\ pc[p] = "rel"
    /\ lock' = IF a.ret.kind = "KeyError" THEN lock ELSE 0
    /\ data' = [data EXCEPT ![p] = IF a.write THEN a.data ELSE EmptyMapping]
    /\ ret' = [ret EXCEPT ![p] = a.ret]
    /\ pc' = [pc EXCEPT ![p] = IF a.write THEN "wacq" ELSE "idle"]
    /\ hist' = [hist EXCEPT ![p] = IF a.write THEN @ ELSE Append(@, Done(call[p], a.ret))]
    /\ UNCHANGED <<file, call, pre, apiVars, runVars, valVars, restVars>>

\* _get_data returns (the with block exits, the lock is released) and the
\* caller runs on to its return, its raise, or its second `with self.file_lock:`.
Release(p) ==
    LET a == AfterRead(call[p], ret[p]) IN
    /\ pc[p] = "rel"
    /\ lock' = 0
    /\ data' = [data EXCEPT ![p] = IF a.write THEN a.data ELSE EmptyMapping]
    /\ ret' = [ret EXCEPT ![p] = a.ret]
    /\ pc' = [pc EXCEPT ![p] = IF a.write THEN "wacq" ELSE "idle"]
    /\ hist' = [hist EXCEPT ![p] = IF a.write THEN @ ELSE Append(@, Done(call[p], a.ret))]
    /\ UNCHANGED <<file, call, pre, apiVars, runVars, valVars, restVars>>

\* __setitem__ / update_test_status: the second `with self.file_lock:` entered.
AcquireW(p) ==
    /\ pc[p] = "wacq"
    /\ LockFree(p)
    /\ lock' = p
    /\ pc' = [pc EXCEPT ![p] = "wopen"]
    /\ UNCHANGED <<file, call, data, ret, hist, pre, apiVars, runVars, valVars, restVars>>

\* open(self.temp_file_path, "w"): the file exists and is empty.
OpenW(p) ==
    /\ pc[p] = "wopen"
    /\ file' = Truncated
    /\ pc' = [pc EXCEPT ![p] = "wdump"]
    /\ UNCHANGED <<lock, call, data, ret, hist, pre, apiVars, runVars, valVars, restVars>>

\* json.dump(updated_data, f) and the close of the file.
Dump(p) ==
    /\ pc[p] = "wdump"
    /\ file' = Written(data[p])
    /\ pc' = [pc EXCEPT ![p] = "wrel"]
    /\ UNCHANGED <<lock, call, data, ret, hist, pre, apiVars, runVars, valVars, restVars>>

\* The write's with block exits; the call returns None.
ReleaseW(p) ==
    /\ pc[p] = "wrel"
    /\ lock' = 0
    /\ data' = [data EXCEPT ![p] = EmptyMapping]
    /\ ret' = [ret EXCEPT ![p] = Ok(NoItem, EmptyMapping)]
    /\ hist' = [hist EXCEPT ![p] = Append(@, Done(call[p], Ok(NoItem, EmptyMapping)))]
    /\ pc' = [pc EXCEPT ![p] = "idle"]
    /\ UNCHANGED <<file, call, pre, apiVars, runVars, valVars, restVars>>

StoreStep(p) ==
    \/ Acquire(p)
    \/ Read(p)
    \/ Release(p)
    \/ AcquireW(p)
    \/ OpenW(p)
    \/ Dump(p)
    \/ ReleaseW(p)

(* --------------------- the store used through its API ------------------ *)

\* A process calls __getitem__, __setitem__, update_test_status or _get_data.
ApiCall(p) ==
    /\ opsLeft[p] > 0
    /\ \E c \in pool : Begin(p, c)
    /\ opsLeft' = [opsLeft EXCEPT ![p] = @ - 1]
    /\ UNCHANGED <<file, lock, data, ret, hist, pool, runVars, valVars, restVars>>

\* No TestReport has been handed to the plugin yet.
NoReport == [nodeid |-> "", when |-> "none", passed |-> FALSE]

\* reporting_config is None: no csv_export_path in the environment or the ini.
NoReporting == [configured |-> FALSE, omit_unexecuted_tests |-> FALSE]

ReportingConfig(omit) == [configured |-> TRUE, omit_unexecuted_tests |-> omit]

\* Nothing exists at csv_export_path.
NoCsv == [exists |-> FALSE, header |-> <<>>, rows |-> <<>>]

\* No call of validate_requirement_tagging has been made or has returned.
NoInput == [test_name |-> "", marker_args |-> <<>>]

NoOutput == [returned |-> FALSE, valid |-> FALSE, errors |-> <<>>, validated_requirements |-> <<>>]

InitNoValidate ==
    /\ vin = NoInput
    /\ vout = NoOutput

\* The processes of a run as its lifecycle sees them: the controller (the
\* only process of a run that is not distributed) and the workers.
Main == 0
Nodes == 0..NWorkers
WorkerNodes == 1..NWorkers

\* No session field has been set on a Config.
NoSessionConfig ==
    [set |-> FALSE, global_session_id |-> "", temp_shared_session_dir_path |-> <<>>]

\* A Config without the workerinput attribute.
NoWorkerInput ==
    [present |-> FALSE, workerid |-> "", temp_worker_dir_path |-> <<>>,
     temp_shared_session_dir_path |-> <<>>, global_session_id |-> ""]

\* No CollectedTests handle, no plugin, no accessor call.
NoHandle == [tmp_dir_path |-> <<>>, temp_file_path |-> <<>>, temp_file_lock_path |-> <<>>]

NoPlugin ==
    [registered |-> FALSE, collected_tests |-> NoHandle, debugger_listening |-> FALSE,
     is_running_on_worker |-> FALSE]

NoAcc ==
    [called |-> FALSE, on |-> 0, raised |-> FALSE, global_session_id |-> "",
     temp_shared_session_dir_path |-> <<>>]

\* No run is under way: the lifecycle takes no part in the other specifications.
InitNoLifecycle ==
    /\ session_config = [n \in Nodes |-> NoSessionConfig]
    /\ workerinput = [n \in Nodes |-> NoWorkerInput]
    /\ plugin = [n \in Nodes |-> NoPlugin]
    /\ stage = [n \in Nodes |-> "none"]
    /\ events = [n \in Nodes |-> 0]
    /\ uuids = <<>>
    /\ env = [CI |-> <<>>, auto_debug |-> FALSE, client_connected |-> FALSE]
    /\ listens = [n \in Nodes |-> 0]
    /\ acc = NoAcc


\* No context manager has been entered.
NoCtx == [state |-> "out", entry_argv |-> <<>>]

\* The command line helpers take no part in the other specifications.
InitNoCli ==
    /\ argv = <<>>
    /\ args_to_expand = {}
    /\ original_args = <<>>
    /\ ctx = NoCtx

\* An Optional value: None, or a value that is there.
None == [is_none |-> TRUE, value |-> <<>>]
Some(value) == [is_none |-> FALSE, value |-> value]

\* `not x` for an optional string or list: None and the empty one are falsy.
Falsy(optional) == optional.is_none \/ optional.value = <<>>

\* No call of serve_static_path is under way.
NoServeCall ==
    [config |-> [block_bare_html_access |-> FALSE, forbidden_path_patterns |-> None,
                 auth_required_path_patterns |-> None],
     request |-> [method |-> "", path |-> <<>>, query |-> <<>>, is_authenticated |-> FALSE],
     asset_path |-> <<>>, url_path |-> None, json_data |-> None]

\* No call of serve_static_path has returned.
NoResponse == [returned |-> FALSE, kind |-> "none", serve_called |-> FALSE,
               serve_path |-> <<>>, redirect_to_login_called |-> FALSE, next |-> <<>>]

\* The static file server takes no part in the other specifications.
InitNoHttp ==
    /\ http = NoServeCall
    /\ resp = NoResponse

\* Values of an object: a leaf, a dict as its items in insertion order
\* (pairs of key and value), a list or tuple as its elements.
Leaf(v) == [type |-> "leaf", v |-> v, items |-> <<>>]
Dict(entries) == [type |-> "dict", v |-> 0, items |-> entries]
List(elems) == [type |-> "list", v |-> 0,
                items |-> [i \in 1..Len(elems) |-> <<<<>>, elems[i]>>]]

\* object_to_multipart_dict has not returned.
NoFlat == [returned |-> FALSE, result |-> {}]

\* The request helpers take no part in the other specifications.
InitNoForm ==
    /\ obj = Dict(<<>>)
    /\ flat = NoFlat

\* The parts of the package modelled further down are at rest.
InitNoRest == InitNoLifecycle /\ InitNoCli /\ InitNoHttp /\ InitNoForm

\* The plugin's hooks take no part in the API or validator specifications.
InitNoRun ==
    /\ items = <<>>
    /\ mandate = FALSE
    /\ markers = [t \in {} |-> <<>>]
    /\ docs = [t \in {} |-> <<>>]
    /\ phase = [p \in Procs |-> "none"]
    /\ idx = [p \in Procs |-> 1]
    /\ errors = [p \in Procs |-> <<>>]
    /\ ran = {}
    /\ report = [p \in Procs |-> NoReport]
    /\ reporting = NoReporting
    /\ csv = NoCsv
    /\ is_running_on_worker = [p \in Procs |-> FALSE]
    /\ opened = {}

InitStore ==
    /\ lock = 0
    /\ pc = [p \in Procs |-> "idle"]
    /\ call = [p \in Procs |-> NoCall]
    /\ data = [p \in Procs |-> EmptyMapping]
    /\ ret = [p \in Procs |-> NoRet]
    /\ hist = [p \in Procs |-> <<>>]

\* Every process has constructed CollectedTests(run_id) for the same run:
\* the directory exists, the file does not.
Init ==
    /\ InitStore
    /\ file = NoFile
    /\ pre = [p \in Procs |-> NoFile]
    /\ opsLeft = [p \in Procs |-> MaxOps]
    /\ pool = WorkerCalls
    /\ InitNoRun
    /\ InitNoValidate
    /\ InitNoRest

Next == \E p \in Procs : ApiCall(p) \/ StoreStep(p)

Spec == Init /\ [][Next]_vars

\* No process crashes or stalls for ever inside an operation: a process
\* whose next step is possible takes it, and FileLock's acquire polls until
\* the lock file is free.
SpecLive == Init /\ [][Next]_vars /\ \A p \in Procs : WF_vars(StoreStep(p))

\* The mappings a store file can hold when a sequential run starts.
StartMappings ==
    {EmptyMapping}
    \cup {SetItem(EmptyMapping, k, m) : k \in Keys, m \in Metas}
    \cup {SetItem(SetItem(EmptyMapping, "t1", m1), "t2", m2) :
            m1 \in {m \in Metas : m.node_id = "t1"}, m2 \in {m \in Metas : m.node_id = "t2"}}

\* One process alone on a store that earlier calls may have filled.
InitSolo ==
    /\ InitStore
    /\ file \in {NoFile} \cup {Written(m) : m \in StartMappings}
    /\ pre = [p \in Procs |-> file]
    /\ opsLeft = [p \in Procs |-> IF p = 1 THEN MaxSoloOps ELSE 0]
    /\ pool = ApiCalls
    /\ InitNoRun
    /\ InitNoValidate
    /\ InitNoRest

SpecSolo == InitSolo /\ [][Next]_vars

(* ----------------------- the requirement validator --------------------- *)

IsDigit(c) == c \in 48..57

\* re.match(r"REQ-\d{3}-\d{3}", req): anchored at the start of req only.
MatchesPattern(s) ==
    /\ Len(s) >= 11
    /\ s[1] = 82 /\ s[2] = 69 /\ s[3] = 81 /\ s[4] = 45
    /\ IsDigit(s[5]) /\ IsDigit(s[6]) /\ IsDigit(s[7])
    /\ s[8] = 45
    /\ IsDigit(s[9]) /\ IsDigit(s[10]) /\ IsDigit(s[11])

\* StrLess as a bug: only the first code points are compared.
StrLessFirstChar(a, b) ==
    IF b = <<>> THEN FALSE
    ELSE IF a = <<>> THEN TRUE
    ELSE a[1] < b[1]

\* Python's a < b on two str values (by code point, a proper prefix is less).
RECURSIVE StrLess(_, _)
StrLess(a, b) ==
    IF b = <<>> THEN FALSE
    ELSE IF a = <<>> THEN TRUE
    ELSE IF a[1] # b[1] THEN a[1] < b[1]
    ELSE StrLess(Tail(a), Tail(b))

\* PassesPattern as a bug: "NA" is not exempted.
PassesPatternOnly(req) == MatchesPattern(req.chars)

\* `re.match(...) or req == "NA"`: the tag goes to validated_requirements.
PassesPattern(req) == MatchesPattern(req.chars) \/ req = NA

\* One error string: the test it names, the rule, and the tag if it names one.
NoTag == Str(<<>>)
Err(test, rule, req) == [test |-> test, rule |-> rule, req |-> req]

\* SortErrors as a bug: no `break`, one error per descending pair.
SortErrorsPerPair(test_name, requirements) ==
    LET descents == SelectSeq([i \in 1..Len(requirements) |-> i],
                              LAMBDA i : i >= 2 /\ StrLess(requirements[i].chars,
                                                           requirements[i - 1].chars))
    IN  [k \in 1..Len(descents) |-> Err(test_name, "not_sorted", NoTag)]

\* The sort loop: one error at the first i with requirements[i] <
\* requirements[i - 1], then `break`.
SortErrors(test_name, requirements) ==
    IF \E i \in 2..Len(requirements) :
           StrLess(requirements[i].chars, requirements[i - 1].chars)
    THEN <<Err(test_name, "not_sorted", NoTag)>>
    ELSE <<>>

\* The pattern loop's errors: one per tag that neither matches nor is "NA".
PatternErrors(test_name, requirements) ==
    LET rejected == SelectSeq(requirements, LAMBDA r : ~PassesPattern(r)) IN
    [i \in 1..Len(rejected) |-> Err(test_name, "bad_pattern", rejected[i])]

\* The pattern loop's validated_requirements.
ValidatedRequirements(requirements) == SelectSeq(requirements, PassesPattern)

\* NoValidErrors as a bug: the error is added whenever some tag was rejected.
NoValidErrorsOnAnyRejected(test_name, requirements) ==
    IF Len(ValidatedRequirements(requirements)) < Len(requirements)
    THEN <<Err(test_name, "no_valid_requirements", NoTag)>>
    ELSE <<>>

\* `if not validated_requirements: errors.append(...)`
NoValidErrors(test_name, requirements) ==
    IF ValidatedRequirements(requirements) = <<>>
    THEN <<Err(test_name, "no_valid_requirements", NoTag)>>
    ELSE <<>>

\* validate_requirement_tagging past its two early returns.
ValidateStrings(test_name, requirements) ==
    LET errs == SortErrors(test_name, requirements)
                \o PatternErrors(test_name, requirements)
                \o NoValidErrors(test_name, requirements)
    IN  [valid |-> Len(errs) = 0,
         errors |-> errs,
         validated_requirements |-> ValidatedRequirements(requirements)]

\* ValidateRequirementTagging as a bug: no isinstance check.
ValidateWithoutStringCheck(test_name, marker_args) ==
    IF marker_args = <<>> THEN
        [valid |-> FALSE,
         errors |-> <<Err(test_name, "missing_marker", NoTag)>>,
         validated_requirements |-> <<>>]
    ELSE ValidateStrings(test_name, marker_args)

\* validate_requirement_tagging(item), item given by its node id and the args
\* of its closest `requirements` marker (() when there is no marker).
ValidateRequirementTagging(test_name, marker_args) ==
    IF marker_args = <<>> THEN
        [valid |-> FALSE,
         errors |-> <<Err(test_name, "missing_marker", NoTag)>>,
         validated_requirements |-> <<>>]
    ELSE IF \E i \in 1..Len(marker_args) : ~marker_args[i].str THEN
        [valid |-> FALSE,
         errors |-> <<Err(test_name, "not_all_strings", NoTag)>>,
         validated_requirements |-> <<>>]
    ELSE ValidateStrings(test_name, marker_args)

\* The tags a marker of the model may carry: passing and failing strings,
\* "NA", the empty string and a value that is not a str.
TagUniverse ==
    {REQ_001_001, REQ_001_002, REQ_005_002, REQ_001_001x, REQ_01_001, Hello, NA,
     Str(<<>>), NonStr}

\* marker.args: any tuple of at most MaxTags of them.
MarkerArgs == UNION {[1..n -> TagUniverse] : n \in 0..MaxTags}

\* A test item about to be validated, the store and the hooks at rest.
InitValidate ==
    /\ InitStore
    /\ file = NoFile
    /\ pre = [p \in Procs |-> NoFile]
    /\ opsLeft = [p \in Procs |-> 0]
    /\ pool = {}
    /\ InitNoRun
    /\ vin \in {[test_name |-> "t1", marker_args |-> a] : a \in MarkerArgs}
    /\ vout = NoOutput
    /\ InitNoRest

\* results = validate_requirement_tagging(item)
Validate ==
    /\ ~vout.returned
    /\ LET results == ValidateRequirementTagging(vin.test_name, vin.marker_args) IN
        vout' = [returned |-> TRUE,
                 valid |-> results.valid,
                 errors |-> results.errors,
                 validated_requirements |-> results.validated_requirements]
    /\ UNCHANGED <<storeVars, apiVars, runVars, vin, restVars>>

NextValidate == Validate

SpecValidate == InitValidate /\ [][NextValidate]_vars

(* ------------------------- the plugin's hooks -------------------------- *)

\* The characters str.strip() removes (ASCII).
Whitespace == {9, 10, 11, 12, 13, 28, 29, 30, 31, 32}

\* doc_string.strip()
Strip(s) ==
    LET keep == {i \in 1..Len(s) : s[i] \notin Whitespace} IN
    IF keep = {} THEN <<>>
    ELSE SubSeq(s, CHOOSE i \in keep : \A j \in keep : i <= j,
                   CHOOSE i \in keep : \A j \in keep : j <= i)

ItemSet == {items[i] : i \in 1..Len(items)}

\* CollectedRecord as a bug: the marker's args are stored as given.
CollectedRecordRawArgs(t) ==
    Meta(t, Strip(docs[t]), IF mandate THEN markers[t] ELSE <<>>, "")

\* The dict pytest_collection_modifyitems stores for item t.
CollectedRecord(t) ==
    Meta(t, Strip(docs[t]),
         IF mandate
         THEN ValidateRequirementTagging(t, markers[t]).validated_requirements
         ELSE <<>>,
         "")

\* `errors.extend(validation_results["errors"])` under
\* `if self.mandate_requirement_markers`: the hook's list after item t.
ExtendErrorsKeepsLast(errs, t) ==
    IF mandate THEN ValidateRequirementTagging(t, markers[t]).errors ELSE errs

ExtendErrors(errs, t) ==
    IF mandate THEN errs \o ValidateRequirementTagging(t, markers[t]).errors ELSE errs

\* One iteration of the loop of pytest_collection_modifyitems, up to the
\* first lock acquisition of self.collected_tests[item.nodeid] = {...}.
CollectItem(p) ==
    /\ phase[p] = "collect"
    /\ pc[p] = "idle"
    /\ idx[p] <= Len(items)
    /\ LET t == items[idx[p]] IN
        /\ errors' = [errors EXCEPT ![p] = ExtendErrors(@, t)]
        /\ Begin(p, SetCall(t, CollectedRecord(t)))
    /\ idx' = [idx EXCEPT ![p] = @ + 1]
    /\ UNCHANGED <<file, lock, data, ret, hist, apiVars, items, mandate, markers, docs,
                   phase, ran, report, reporting, csv, is_running_on_worker, opened,
                   valVars, restVars>>

\* `if errors:` as a bug: the hook never raises.
NeverRaises(errs) == FALSE

\* `if errors:`
RaisesOnErrors(errs) == errs # <<>>

\* pytest_collection_modifyitems after the loop: `if errors: raise
\* InvalidTestConfigurationError(errors)`, else the hook returns.
CollectEnd(p) ==
    /\ phase[p] = "collect"
    /\ pc[p] = "idle"
    /\ idx[p] > Len(items)
    /\ phase' = [phase EXCEPT ![p] = IF RaisesOnErrors(errors[p]) THEN "aborted" ELSE "execute"]
    /\ UNCHANGED <<storeVars, apiVars, items, mandate, markers, docs, idx, errors, ran,
                   report, reporting, csv, is_running_on_worker, opened,
                   valVars, restVars>>

TestReport(t, when, passed) == [nodeid |-> t, when |-> when, passed |-> passed]

\* The reports the test runner hands to the hook next on process p: for each
\* test a setup report, a call report when the setup passed, and a teardown
\* report, each passed or not; a test is started once, by one process.
NextReports(p) ==
    LET last == report[p] IN
    IF last.when \in {"none", "teardown"}
    THEN {TestReport(t, "setup", b) : t \in ItemSet \ ran, b \in BOOLEAN}
    ELSE IF last.when = "setup" /\ last.passed
    THEN {TestReport(last.nodeid, "call", b) : b \in BOOLEAN}
    ELSE {TestReport(last.nodeid, "teardown", b) : b \in BOOLEAN}

\* `if report.when == "call":`
HandlesAnyReport(when) == TRUE

HandlesReport(when) == when = "call"

\* `"PASS" if report.passed else "FAIL"`
ReportStatus(passed) == IF passed THEN "PASS" ELSE "FAIL"

\* pytest_runtest_logreport(report) on process p, up to the first lock
\* acquisition of update_test_status. The test runner delivers reports only
\* once every process has finished its collection, and none after a hook
\* has raised.
LogReport(p) ==
    /\ phase[p] = "execute"
    /\ pc[p] = "idle"
    /\ ret[p].kind # "KeyError"
    /\ \A q \in Procs : phase[q] # "collect"
    /\ \E r \in NextReports(p) :
        /\ report' = [report EXCEPT ![p] = r]
        /\ ran' = ran \cup {r.nodeid}
        /\ IF HandlesReport(r.when)
           THEN /\ Begin(p, UpdateCall(r.nodeid, ReportStatus(r.passed)))
                /\ UNCHANGED <<file, lock, data, ret, hist>>
           ELSE UNCHANGED storeVars
    /\ UNCHANGED <<apiVars, items, mandate, markers, docs, phase, idx, errors,
                   reporting, csv, is_running_on_worker, opened,
                   valVars, restVars>>

NextRun == \E p \in Procs : CollectItem(p) \/ CollectEnd(p) \/ LogReport(p) \/ StoreStep(p)

\* The marker args a test of the model may carry.
MarkerChoices ==
    {<<>>,
     <<Hello>>,
     <<NonStr>>,
     <<REQ_001_002, REQ_001_001>>,
     <<REQ_004_001, REQ_005_002>>,
     <<REQ_001_001, Hello>>,
     <<NA>>,
     <<REQ_01_001, REQ_001_001x>>}

ValidMarker == <<REQ_004_001, REQ_005_002>>

\* A distributed run: every process has registered the plugin on the same
\* session id and is about to collect the same tests.
InitRun ==
    /\ InitStore
    /\ file = NoFile
    /\ pre = [p \in Procs |-> NoFile]
    /\ opsLeft = [p \in Procs |-> 0]
    /\ pool = {}
    /\ items = SubSeq(NodeNames, 1, MaxItems)
    /\ mandate \in BOOLEAN
    /\ markers = [t \in ItemSet |-> ValidMarker]
    /\ docs = [t \in ItemSet |-> <<>>]
    /\ phase = [p \in Procs |-> "collect"]
    /\ idx = [p \in Procs |-> 1]
    /\ errors = [p \in Procs |-> <<>>]
    /\ ran = {}
    /\ report = [p \in Procs |-> NoReport]
    /\ reporting = NoReporting
    /\ csv = NoCsv
    /\ is_running_on_worker = [p \in Procs |-> TRUE]
    /\ opened = {}
    /\ InitNoValidate
    /\ InitNoRest

SpecRun == InitRun /\ [][NextRun]_vars

\* A run of one process, over tests with any of the marker args.
InitCollect ==
    /\ InitStore
    /\ file = NoFile
    /\ pre = [p \in Procs |-> NoFile]
    /\ opsLeft = [p \in Procs |-> 0]
    /\ pool = {}
    /\ items = SubSeq(NodeNames, 1, MaxSoloItems)
    /\ mandate \in BOOLEAN
    /\ markers \in [ItemSet -> MarkerChoices]
    /\ docs \in [ItemSet -> {<<>>, DocRaw}]
    /\ phase = [p \in Procs |-> IF p = 1 THEN "collect" ELSE "off"]
    /\ idx = [p \in Procs |-> 1]
    /\ errors = [p \in Procs |-> <<>>]
    /\ ran = {}
    /\ report = [p \in Procs |-> NoReport]
    /\ reporting = NoReporting
    /\ csv = NoCsv
    /\ is_running_on_worker = [p \in Procs |-> FALSE]
    /\ opened = {}
    /\ InitNoValidate
    /\ InitNoRest

SpecCollect == InitCollect /\ [][NextRun]_vars

\* The four tests of the requirement scenarios in one module: no marker,
\* the single tag "Hello", two tags out of order, two tags in order.
ScenarioMarkers ==
    [t \in {"t1", "t2", "t3", "t4"} |->
        CASE t = "t1" -> <<>>
          [] t = "t2" -> <<Hello>>
          [] t = "t3" -> <<REQ_001_002, REQ_001_001>>
          [] t = "t4" -> <<REQ_004_001, REQ_005_002>>]

\* One process runs that module, with the mandate on or off.
InitScenario ==
    /\ InitStore
    /\ file = NoFile
    /\ pre = [p \in Procs |-> NoFile]
    /\ opsLeft = [p \in Procs |-> 0]
    /\ pool = {}
    /\ items = <<"t1", "t2", "t3", "t4">>
    /\ mandate \in BOOLEAN
    /\ markers = ScenarioMarkers
    /\ docs = [t \in ItemSet |-> <<>>]
    /\ phase = [p \in Procs |-> IF p = 1 THEN "collect" ELSE "off"]
    /\ idx = [p \in Procs |-> 1]
    /\ errors = [p \in Procs |-> <<>>]
    /\ ran = {}
    /\ report = [p \in Procs |-> NoReport]
    /\ reporting = NoReporting
    /\ csv = NoCsv
    /\ is_running_on_worker = [p \in Procs |-> FALSE]
    /\ opened = {}
    /\ InitNoValidate
    /\ InitNoRest

SpecScenario == InitScenario /\ [][NextRun]_vars

(* --------------------------- the CSV report ---------------------------- *)

\* The keys of an entry as the collection hook writes it, in dict order.
Fieldnames == <<"node_id", "requirements", "doc_string", "status">>

\* collected_test_mappings.values() as a sequence. json keeps the order in
\* which the keys were first set, which for the one collecting process of a
\* session is the order of items.
Values(mapping) ==
    LET collected == SelectSeq(items, LAMBDA t : t \in DOMAIN mapping) IN
    [i \in 1..Len(collected) |-> mapping[collected[i]]]

\* OmittedFromReport as a bug: the ini flag is ignored.
OmitsNothing(test) == FALSE

\* `self.reporting_config.get("omit_unexecuted_tests", False) and test["status"] == ""`
OmittedFromReport(test) == reporting.omit_unexecuted_tests /\ test.status = ""

\* The file `with open(csv_export_path, "w")` leaves for a snapshot: opened
\* and truncated, then nothing more when next(iter({})) raises
\* StopIteration; otherwise the header and one row per entry not omitted.
ReportFile(mapping) ==
    IF DOMAIN mapping = {}
    THEN [exists |-> TRUE, header |-> <<>>, rows |-> <<>>]
    ELSE [exists |-> TRUE,
          header |-> Fieldnames,
          rows |-> SelectSeq(Values(mapping), LAMBDA test : ~OmittedFromReport(test))]

\* pytest_sessionfinish on process p, up to the lock acquisition of
\* _get_data: it returns at once without a reporting_config. The session
\* ends after a collection failure, or once no test is between its setup
\* and its teardown report (tests may be left unexecuted); on the controller
\* of a distributed run (phase "control": it collects and runs no test) it
\* ends once every worker's session has.
SessionFinish(p) ==
    /\ phase[p] \in {"execute", "aborted", "control"}
    /\ phase[p] = "control" =>
          \A q \in Procs \ {p} : phase[q] \in {"off", "finished", "finish_raised"}
    /\ pc[p] = "idle"
    /\ report[p].when \in {"none", "teardown"}
    /\ IF ~reporting.configured
       THEN /\ phase' = [phase EXCEPT ![p] = "finished"]
            /\ UNCHANGED storeVars
       ELSE /\ phase' = [phase EXCEPT ![p] = "snapshot"]
            /\ Begin(p, SnapshotCall)
            /\ UNCHANGED <<file, lock, data, ret, hist>>
    /\ UNCHANGED <<apiVars, items, mandate, markers, docs, idx, errors, ran, report,
                   reporting, csv, is_running_on_worker, opened,
                   valVars, restVars>>

\* pytest_sessionfinish from the return of _get_data: the `with open` block.
\* An empty snapshot ends the hook with StopIteration.
WriteReport(p) ==
    /\ phase[p] = "snapshot"
    /\ pc[p] = "idle"
    /\ csv' = ReportFile(ret[p].map)
    /\ opened' = opened \cup {p}
    /\ phase' = [phase EXCEPT ![p] =
            IF DOMAIN ret[p].map = {} THEN "finish_raised" ELSE "finished"]
    /\ UNCHANGED <<storeVars, apiVars, items, mandate, markers, docs, idx, errors, ran,
                   report, reporting, is_running_on_worker,
                   valVars, restVars>>

NextSession ==
    \E p \in Procs :
        \/ CollectItem(p) \/ CollectEnd(p) \/ LogReport(p)
        \/ SessionFinish(p) \/ WriteReport(p)
        \/ StoreStep(p)

\* A report an earlier session left at csv_export_path.
OldReport ==
    [exists |-> TRUE, header |-> Fieldnames, rows |-> <<Meta("t1", <<>>, <<>>, "PASS")>>]

\* A session of one process over up to MaxSoloItems tests, tagged or not,
\* with or without a report destination, which may hold an earlier report.
InitSession ==
    /\ InitStore
    /\ file = NoFile
    /\ pre = [p \in Procs |-> NoFile]
    /\ opsLeft = [p \in Procs |-> 0]
    /\ pool = {}
    /\ items \in {SubSeq(NodeNames, 1, n) : n \in 0..MaxSoloItems}
    /\ mandate \in BOOLEAN
    /\ markers \in [ItemSet -> {<<>>, ValidMarker}]
    /\ docs = [t \in ItemSet |-> <<>>]
    /\ phase = [p \in Procs |-> IF p = 1 THEN "collect" ELSE "off"]
    /\ idx = [p \in Procs |-> 1]
    /\ errors = [p \in Procs |-> <<>>]
    /\ ran = {}
    /\ report = [p \in Procs |-> NoReport]
    /\ reporting \in {NoReporting, ReportingConfig(FALSE), ReportingConfig(TRUE)}
    /\ csv \in {NoCsv, OldReport}
    /\ is_running_on_worker = [p \in Procs |-> FALSE]
    /\ opened = {}
    /\ InitNoValidate
    /\ InitNoRest

SpecSession == InitSession /\ [][NextSession]_vars

\* The controller of a distributed run: the last process; the others are
\* its workers.
Controller == NProcs
Workers == Procs \ {Controller}

\* A distributed session: every worker collects all the tests and runs some,
\* the controller only takes part in the lifecycle events. The ini file and
\* the environment, and so reporting_config, are the same on every process.
InitDistributed ==
    /\ InitStore
    /\ file = NoFile
    /\ pre = [p \in Procs |-> NoFile]
    /\ opsLeft = [p \in Procs |-> 0]
    /\ pool = {}
    /\ items = SubSeq(NodeNames, 1, MaxSoloItems)
    /\ mandate = FALSE
    /\ markers = [t \in ItemSet |-> ValidMarker]
    /\ docs = [t \in ItemSet |-> <<>>]
    /\ phase = [p \in Procs |-> IF p = Controller THEN "control" ELSE "collect"]
    /\ idx = [p \in Procs |-> 1]
    /\ errors = [p \in Procs |-> <<>>]
    /\ ran = {}
    /\ report = [p \in Procs |-> NoReport]
    /\ reporting \in {NoReporting, ReportingConfig(FALSE), ReportingConfig(TRUE)}
    /\ csv = NoCsv
    /\ is_running_on_worker = [p \in Procs |-> p # Controller]
    /\ opened = {}
    /\ InitNoValidate
    /\ InitNoRest

SpecDistributed == InitDistributed /\ [][NextSession]_vars

(* ------------------ session identity and the lifecycle ----------------- *)

\* Values uuid.uuid4().hex can give.
Ids == {"5f1c", "a07e"}

\* The worker ids xdist hands out.
WorkerId(n) == <<"gw0", "gw1", "gw2", "gw3">>[n]

\* os.path.join(path, name), a path being the sequence of its components.
Join(path, name) == Append(path, name)

\* os.path.join(BASE_DIR, ".pytest_run_cache", global_session_id)
SessionDir(id) == Join(Join(<<"BASE_DIR">>, ".pytest_run_cache"), id)

\* CollectedTests(run_id): the directory, the backing file and the lock file.
CollectedTestsInit(run_id) ==
    LET tmp_dir_path == Join(Join(<<"BASE_DIR">>, ".pytest_run_cache"), run_id) IN
    [tmp_dir_path |-> tmp_dir_path,
     temp_file_path |-> Join(tmp_dir_path, "test.temp.json"),
     temp_file_lock_path |-> Join(tmp_dir_path, "test.temp.json.lock")]

\* IsMainPytestRunner as a bug: every process takes itself for the main one.
IsMainAlways(wi) == TRUE

\* is_main_pytest_runner(config) and is_main_pytest_runner(session): both
\* come down to the Config having no workerinput.
IsMainPytestRunner(wi) == ~wi.present

\* get_internal_shared_config: the session fields of the Config on the main
\* runner (AttributeError when they were never set), workerinput on a worker.
GetInternalSharedConfig(cfg, wi) ==
    IF IsMainPytestRunner(wi)
    THEN IF cfg.set
         THEN [raised |-> FALSE,
               global_session_id |-> cfg.global_session_id,
               temp_shared_session_dir_path |-> cfg.temp_shared_session_dir_path]
         ELSE [raised |-> TRUE, global_session_id |-> "",
               temp_shared_session_dir_path |-> <<>>]
    ELSE [raised |-> FALSE,
          global_session_id |-> wi.global_session_id,
          temp_shared_session_dir_path |-> wi.temp_shared_session_dir_path]

\* str.lower() (ASCII)
Lower(str) == [i \in 1..Len(str) |-> IF str[i] \in 65..90 THEN str[i] + 32 ELSE str[i]]

\* The values of the environment variable CI: unset, "true", "TRUE", "1".
CIValues == {<<>>, <<116, 114, 117, 101>>, <<84, 82, 85, 69>>, <<49>>}

\* auto_debug as a bug: CI is not looked at.
AutoDebugIgnoringCI == env.auto_debug

\* The auto_debug property: off under CI, else the ini value or its
\* environment override.
AutoDebug == IF Lower(env.CI) = <<116, 114, 117, 101>> THEN FALSE ELSE env.auto_debug

\* auto_engage_debugger on a plugin whose process has bound n listeners;
\* ok: debugpy.listen returns (it raises otherwise, and the error is logged).
AutoEngageDebugger(pl, n, ok) ==
    IF ~AutoDebug \/ pl.is_running_on_worker THEN [plugin |-> pl, listens |-> n]
    ELSE IF pl.debugger_listening \/ env.client_connected THEN [plugin |-> pl, listens |-> n]
    ELSE IF ok THEN [plugin |-> [pl EXCEPT !.debugger_listening = TRUE], listens |-> n + 1]
    ELSE [plugin |-> pl, listens |-> n]

\* The module's pytest_sessionstart on process n: on the main runner a new
\* session id and directory; on every process the plugin, its store handle
\* and a first auto_engage_debugger.
SessionStart(n) ==
    /\ stage[n] = "ready"
    /\ \E id \in Ids, ok \in BOOLEAN :
        LET main == IsMainPytestRunner(workerinput[n])
            cfg == IF main
                   THEN [set |-> TRUE, global_session_id |-> id,
                         temp_shared_session_dir_path |-> SessionDir(id)]
                   ELSE session_config[n]
            shared == GetInternalSharedConfig(cfg, workerinput[n])
            pl == [registered |-> TRUE,
                   collected_tests |-> CollectedTestsInit(shared.global_session_id),
                   debugger_listening |-> FALSE,
                   is_running_on_worker |-> ~IsMainPytestRunner(workerinput[n])]
            engaged == AutoEngageDebugger(pl, listens[n], ok)
        IN  /\ session_config' = [session_config EXCEPT ![n] = cfg]
            /\ uuids' = IF main THEN Append(uuids, [by |-> n, id |-> id]) ELSE uuids
            /\ plugin' = [plugin EXCEPT ![n] = engaged.plugin]
            /\ listens' = [listens EXCEPT ![n] = engaged.listens]
    /\ stage' = [stage EXCEPT ![n] = "started"]
    /\ events' = [events EXCEPT ![n] = MaxEvents]
    /\ UNCHANGED <<storeVars, apiVars, runVars, valVars, cliVars, httpVars, formVars, workerinput, env, acc>>

\* WorkerInput as a bug: each worker is given a session of its own.
WorkerInputOwnSession(w) ==
    [present |-> TRUE,
     workerid |-> WorkerId(w),
     temp_worker_dir_path |-> Join(session_config[Main].temp_shared_session_dir_path, WorkerId(w)),
     temp_shared_session_dir_path |-> session_config[Main].temp_shared_session_dir_path,
     global_session_id |-> WorkerId(w)]

\* node.workerinput as pytest_configure_node leaves it for worker w.
WorkerInput(w) ==
    [present |-> TRUE,
     workerid |-> WorkerId(w),
     temp_worker_dir_path |-> Join(session_config[Main].temp_shared_session_dir_path, WorkerId(w)),
     temp_shared_session_dir_path |-> session_config[Main].temp_shared_session_dir_path,
     global_session_id |-> session_config[Main].global_session_id]

\* pytest_configure_node(node) on the controller for worker w, which starts
\* with that workerinput. xdist configures its nodes from its own
\* session-start hook, which runs after the module's.
ConfigureNode(w) ==
    /\ stage[Main] = "started"
    /\ stage[w] = "unspawned"
    /\ workerinput' = [workerinput EXCEPT ![w] = WorkerInput(w)]
    /\ stage' = [stage EXCEPT ![w] = "ready"]
    /\ UNCHANGED <<storeVars, apiVars, runVars, valVars, cliVars, httpVars, formVars, session_config, plugin, events,
                   uuids, env, listens, acc>>

\* The plugin's hooks that engage the debugger.
DebuggerHooks == {"pytest_sessionstart", "pytest_collection_modifyitems", "pytest_collection_finish"}

\* One of those hooks is called on the plugin of process n:
\* pytest_sessionstart marks a worker and returns, the others (and
\* pytest_sessionstart on the main runner) call auto_engage_debugger.
PluginHook(n) ==
    /\ stage[n] = "started"
    /\ events[n] > 0
    /\ \E hook \in DebuggerHooks, ok \in BOOLEAN :
        LET engaged == AutoEngageDebugger(plugin[n], listens[n], ok) IN
        IF hook = "pytest_sessionstart" /\ ~IsMainPytestRunner(workerinput[n])
        THEN /\ plugin' = [plugin EXCEPT ![n].is_running_on_worker = TRUE]
             /\ listens' = listens
        ELSE /\ plugin' = [plugin EXCEPT ![n] = engaged.plugin]
             /\ listens' = [listens EXCEPT ![n] = engaged.listens]
    /\ events' = [events EXCEPT ![n] = @ - 1]
    /\ UNCHANGED <<storeVars, apiVars, runVars, valVars, cliVars, httpVars, formVars, session_config, workerinput, stage,
                   uuids, env, acc>>

\* get_internal_shared_config(config) is called on process n, at any point
\* of the life of that process.
CallAccessor(n) ==
    /\ stage[n] \in {"ready", "started"}
    /\ LET shared == GetInternalSharedConfig(session_config[n], workerinput[n]) IN
        acc' = [called |-> TRUE, on |-> n, raised |-> shared.raised,
                global_session_id |-> shared.global_session_id,
                temp_shared_session_dir_path |-> shared.temp_shared_session_dir_path]
    /\ UNCHANGED <<storeVars, apiVars, runVars, valVars, cliVars, httpVars, formVars, session_config, workerinput, plugin,
                   stage, events, uuids, env, listens>>

\* A run before its session starts: the controller exists, no worker does.
InitLifecycle ==
    /\ InitStore
    /\ file = NoFile
    /\ pre = [p \in Procs |-> NoFile]
    /\ opsLeft = [p \in Procs |-> 0]
    /\ pool = {}
    /\ InitNoRun
    /\ InitNoValidate
    /\ session_config = [n \in Nodes |-> NoSessionConfig]
    /\ workerinput = [n \in Nodes |-> NoWorkerInput]
    /\ plugin = [n \in Nodes |-> NoPlugin]
    /\ stage = [n \in Nodes |-> IF n = Main THEN "ready" ELSE "unspawned"]
    /\ events = [n \in Nodes |-> 0]
    /\ uuids = <<>>
    /\ env \in [CI : CIValues, auto_debug : BOOLEAN, client_connected : BOOLEAN]
    /\ listens = [n \in Nodes |-> 0]
    /\ acc = NoAcc
    /\ InitNoCli
    /\ InitNoHttp
    /\ InitNoForm

NextLifecycle ==
    \E n \in Nodes :
        \/ SessionStart(n)
        \/ n \in WorkerNodes /\ ConfigureNode(n)
        \/ PluginHook(n)
        \/ CallAccessor(n)

SpecLifecycle == InitLifecycle /\ [][NextLifecycle]_vars

(* ------------- cli_utils: MonkeyPatchedArgsWithExpandedRepeats --------- *)

\* Command line arguments as code points: "--f", "-d", "a", "b" and "".
ArgUniverse == {<<45, 45, 102>>, <<45, 100>>, <<97>>, <<98>>, <<>>}

\* The flags a context manager may be told to expand.
ExpandChoices == {{}, {<<45, 45, 102>>}, {<<45, 45, 102>>, <<45, 100>>}}

\* StartsWithDash as a bug: nothing is taken for an option.
StartsWithNothing(arg) == FALSE

\* arg.startswith("-")
StartsWithDash(arg) == Len(arg) >= 1 /\ arg[1] = 45

\* The inner loop of __enter__ at a flag `arg` found at idx: while the next
\* argument exists and is no option, emit [arg, args[idx + 1]] and move on.
RECURSIVE Repeats(_, _, _, _)
Repeats(args, at, arg, patched_arg_list) ==
    IF at + 1 <= Len(args) /\ ~StartsWithDash(args[at + 1])
    THEN Repeats(args, at + 1, arg, patched_arg_list \o <<arg, args[at + 1]>>)
    ELSE [at |-> at, patched_arg_list |-> patched_arg_list]

\* The outer loop of __enter__ from place `at` on (idx + 1 of the code).
RECURSIVE Patched(_, _, _, _)
Patched(args, expand, at, patched_arg_list) ==
    IF at > Len(args) THEN patched_arg_list
    ELSE IF args[at] \in expand
    THEN LET inner == Repeats(args, at, args[at], patched_arg_list) IN
         Patched(args, expand, inner.at + 1, inner.patched_arg_list)
    ELSE Patched(args, expand, at + 1, Append(patched_arg_list, args[at]))

\* __enter__: original_args and args are copies of sys.argv; sys.argv
\* becomes the patched list.
Enter ==
    /\ ctx.state # "in"
    /\ original_args' = argv
    /\ argv' = Patched(argv, args_to_expand, 1, <<>>)
    /\ ctx' = [state |-> "in", entry_argv |-> argv]
    /\ UNCHANGED <<storeVars, apiVars, runVars, valVars, lifeVars, httpVars, formVars, args_to_expand>>

\* ExitArgv as a bug: __exit__ leaves sys.argv alone.
ExitArgvKept == argv

\* `sys.argv = self.original_args`
ExitArgv == original_args

\* __exit__
Exit ==
    /\ ctx.state = "in"
    /\ argv' = ExitArgv
    /\ ctx' = [ctx EXCEPT !.state = "exited"]
    /\ UNCHANGED <<storeVars, apiVars, runVars, valVars, lifeVars, httpVars, formVars, args_to_expand,
                   original_args>>

\* A program about to enter `with MonkeyPatchedArgsWithExpandedRepeats(...)`
\* with any command line of at most MaxArgs arguments.
InitCli ==
    /\ InitStore
    /\ file = NoFile
    /\ pre = [p \in Procs |-> NoFile]
    /\ opsLeft = [p \in Procs |-> 0]
    /\ pool = {}
    /\ InitNoRun
    /\ InitNoValidate
    /\ InitNoLifecycle
    /\ argv \in UNION {[1..n -> ArgUniverse] : n \in 0..MaxArgs}
    /\ args_to_expand \in ExpandChoices
    /\ original_args = <<>>
    /\ ctx = NoCtx
    /\ InitNoHttp
    /\ InitNoForm

NextCli == Enter \/ Exit

SpecCli == InitCli /\ [][NextCli]_vars

(* ------------- requests: SimpleStaticFileServer ------------------------ *)

\* ".html"
DotHtml == <<46, 104, 116, 109, 108>>

\* URL paths as code points: "/i.html", "/app/", "/app/a.html", "/d/dogs/f"
\* and "/h/".
UrlPaths == {<<47, 105, 46, 104, 116, 109, 108>>,
             <<47, 97, 112, 112, 47>>,
             <<47, 97, 112, 112, 47, 97, 46, 104, 116, 109, 108>>,
             <<47, 100, 47, 100, 111, 103, 115, 47, 102>>,
             <<47, 104, 47>>}

\* Compiled patterns of the shapes the configurations use: a literal that is
\* searched for anywhere, or only at the start when the pattern begins with
\* "^" (a trailing ".*" changes nothing for a search). Here r"/dogs/.*",
\* r"^/app/" and r"html".
Patterns == {[anchored |-> FALSE, literal |-> <<47, 100, 111, 103, 115, 47>>],
             [anchored |-> TRUE, literal |-> <<47, 97, 112, 112, 47>>],
             [anchored |-> FALSE, literal |-> <<104, 116, 109, 108>>]}

\* The lists of patterns a configuration may hold; None is the default.
PatternLists == {None, Some(<<>>)} \cup {Some(<<x>>) : x \in Patterns}
                \cup {Some(<<[anchored |-> FALSE, literal |-> <<47, 100, 111, 103, 115, 47>>],
                         [anchored |-> TRUE, literal |-> <<47, 97, 112, 112, 47>>]>>)}

\* str.endswith(suffix)
EndsWith(str, suffix) ==
    /\ Len(str) >= Len(suffix)
    /\ SubSeq(str, Len(str) - Len(suffix) + 1, Len(str)) = suffix

\* pattern.search(str) is not None
Search(pattern, str) ==
    \E k \in 1..(Len(str) - Len(pattern.literal) + 1) :
        /\ pattern.anchored => k = 1
        /\ SubSeq(str, k, k + Len(pattern.literal) - 1) = pattern.literal

\* any(pattern.search(url_path) for pattern in patterns)
AnySearch(patterns, url_path) ==
    \E k \in 1..Len(patterns) : Search(patterns[k], url_path)

\* request.get_full_path(): the path, and "?" with the query string when
\* there is one.
GetFullPath(request) ==
    IF request.query = <<>> THEN request.path
    ELSE request.path \o <<63>> \o request.query

\* What a guard or the serving code hands back; the kind "None" is the
\* guard's None.
Response(kind) ==
    [returned |-> TRUE, kind |-> kind, serve_called |-> FALSE, serve_path |-> <<>>,
     redirect_to_login_called |-> FALSE, next |-> <<>>]

\* GuardPath as a bug: the block list is consulted before bare HTML access.
GuardPathForbiddenFirst(config, request, url_path) ==
    IF AnySearch(IF Falsy(config.forbidden_path_patterns) THEN <<>>
                 ELSE config.forbidden_path_patterns.value, url_path)
    THEN Response("HttpResponseForbidden")
    ELSE IF config.block_bare_html_access /\ EndsWith(url_path, DotHtml)
    THEN Response("HttpResponseNotFound")
    ELSE IF /\ ~Falsy(config.auth_required_path_patterns)
            /\ ~request.is_authenticated
            /\ AnySearch(config.auth_required_path_patterns.value, url_path)
    THEN [Response("HttpResponseRedirect") EXCEPT !.redirect_to_login_called = TRUE,
                                                  !.next = GetFullPath(request)]
    ELSE Response("None")

\* guard_path(request, url_path): a response, or None to carry on.
GuardPath(config, request, url_path) ==
    IF config.block_bare_html_access /\ EndsWith(url_path, DotHtml)
    THEN Response("HttpResponseNotFound")
    ELSE IF AnySearch(IF Falsy(config.forbidden_path_patterns) THEN <<>>
                      ELSE config.forbidden_path_patterns.value, url_path)
    THEN Response("HttpResponseForbidden")
    ELSE IF /\ ~Falsy(config.auth_required_path_patterns)
            /\ ~request.is_authenticated
            /\ AnySearch(config.auth_required_path_patterns.value, url_path)
    THEN [Response("HttpResponseRedirect") EXCEPT !.redirect_to_login_called = TRUE,
                                                  !.next = GetFullPath(request)]
    ELSE Response("None")

\* The path of the temporary file the page with the injected JSON is
\* written to: "/tmp/t.html".
TempFilePath == <<47, 116, 109, 112, 47, 116, 46, 104, 116, 109, 108>>

\* serve_static_path(request, asset_path, url_path, json_data)
ServeStaticPathResult(config, request, asset_path, url_path, json_data) ==
    IF request.method \notin {"GET", "HEAD", "OPTIONS"}
    THEN Response("HttpResponseNotAllowed")
    ELSE LET guarded == IF Falsy(url_path) THEN request.path ELSE url_path.value
             response == GuardPath(config, request, guarded) IN
         IF response.kind # "None" THEN response
         ELSE IF json_data.is_none
         THEN [Response("FileResponse") EXCEPT !.serve_called = TRUE,
                                               !.serve_path = asset_path]
         ELSE IF ~EndsWith(asset_path, DotHtml)
         THEN Response("ValueError")
         ELSE [Response("FileResponse") EXCEPT !.serve_called = TRUE,
                                               !.serve_path = Tail(TempFilePath)]

\* A server and a request that has not been answered: any configuration,
\* any method, path, query string and user, any arguments of the call.
InitServe ==
    /\ InitStore
    /\ file = NoFile
    /\ pre = [p \in Procs |-> NoFile]
    /\ opsLeft = [p \in Procs |-> 0]
    /\ pool = {}
    /\ InitNoRun
    /\ InitNoValidate
    /\ InitNoLifecycle
    /\ InitNoCli
    /\ http \in [config : [block_bare_html_access : BOOLEAN,
                          forbidden_path_patterns : PatternLists,
                          auth_required_path_patterns : PatternLists],
                request : [method : {"GET", "POST"},
                           path : UrlPaths,
                           query : {<<>>, <<97, 61, 49>>},
                           is_authenticated : BOOLEAN],
                asset_path : {<<47, 105, 46, 104, 116, 109, 108>>, <<47, 97, 46, 99, 115, 115>>},
                url_path : {None, Some(<<>>), Some(<<47, 97, 112, 112, 47>>), Some(<<47, 97, 112, 112, 47, 97, 46, 104, 116, 109, 108>>)},
                json_data : {None, Some(<<>>)}]
    /\ resp = NoResponse
    /\ InitNoForm

\* The view calls serve_static_path and gets its answer.
ServeStaticPath ==
    /\ ~resp.returned
    /\ resp' = ServeStaticPathResult(http.config, http.request, http.asset_path,
                                     http.url_path, http.json_data)
    /\ UNCHANGED <<storeVars, apiVars, runVars, valVars, lifeVars, cliVars, formVars, http>>

NextServe == ServeStaticPath

SpecServe == InitServe /\ [][NextServe]_vars

(* ------------- requests: object_to_multipart_dict ---------------------- *)

\* The keys of the objects, as code points: "a", "b" and "n".
KeyA == <<97>>
KeyB == <<98>>
KeyN == <<110>>
FormKeys == {KeyA, KeyB, KeyN}

\* The values an object holds under a key: leaves, dicts (empty, flat, with
\* two keys, nested twice) and lists (of leaves, of dicts, mixed, of lists).
FormValues ==
    {Leaf(1), Leaf(2),
     Dict(<<>>),
     Dict(<<<<KeyA, Leaf(3)>>>>),
     Dict(<<<<KeyA, Leaf(3)>>, <<KeyB, Leaf(4)>>>>),
     Dict(<<<<KeyB, Dict(<<<<KeyA, Leaf(3)>>>>)>>>>),
     List(<<Leaf(5), Leaf(6)>>),
     List(<<Dict(<<<<KeyA, Leaf(3)>>>>), Dict(<<<<KeyA, Leaf(4)>>>>)>>),
     List(<<Leaf(5), Dict(<<<<KeyA, Leaf(3)>>>>)>>),
     List(<<List(<<Leaf(5)>>)>>)}

\* str(n) for a natural number, as code points.
RECURSIVE Decimal(_)
Decimal(n) == IF n < 10 THEN <<48 + n>> ELSE Decimal(n \div 10) \o <<48 + (n % 10)>>

\* f"[{key}]"
Bracketed(key) == <<91>> \o key \o <<93>>

\* result[key] = val, the flat map being a set of pairs of key and value.
Put(result, key, val) == {e \in result : e[1] # key} \cup {<<key, val>>}

RECURSIVE ObjectToMultipartDict(_, _, _)
RECURSIVE ItemsFrom(_, _, _, _, _)
RECURSIVE ElemsFrom(_, _, _, _)

\* `object_to_multipart_dict(val, result, key)` with its return value
\* dropped: the caller's map is filled only when the callee's
\* `existing_multipart_dict or {}` is the caller's map, that is when the
\* map is not empty; an empty map makes the callee fill a new dict of its
\* own that is lost.
NestedCall(val, result, key) ==
    IF result # {} THEN ObjectToMultipartDict(val, result, key) ELSE result

\* The inner loop over a list or tuple, from element i on.
ElemsFrom(elems, i, key, result) ==
    IF i > Len(elems) THEN result
    ELSE LET sub_val == elems[i][2]
             sub_key == key \o Bracketed(Decimal(i - 1)) IN
         ElemsFrom(elems, i + 1, key,
                   IF sub_val.type = "dict" THEN NestedCall(sub_val, result, sub_key)
                   ELSE Put(result, sub_key, sub_val))

\* The loop over obj.items(), from item k on; bracket is the truth of
\* existing_multipart_dict.
ItemsFrom(entries, k, bracket, key_prefix, result) ==
    IF k > Len(entries) THEN result
    ELSE LET val == entries[k][2]
             key == key_prefix \o (IF bracket THEN Bracketed(entries[k][1])
                                    ELSE entries[k][1]) IN
         ItemsFrom(entries, k + 1, bracket, key_prefix,
                   CASE val.type = "dict" -> NestedCall(val, result, key)
                     [] val.type = "list" -> ElemsFrom(val.items, 1, key, result)
                     [] OTHER -> Put(result, key, val))

\* object_to_multipart_dict(obj, existing_multipart_dict, key_prefix); the
\* map passed in is {} for None.
ObjectToMultipartDict(o, existing_multipart_dict, key_prefix) ==
    ItemsFrom(o.items, 1, existing_multipart_dict # {}, key_prefix,
              existing_multipart_dict)

\* The objects of at most MaxKeys keys, in every insertion order.
FormObjects ==
    {Dict(entries) : entries \in
        {x \in UNION {[1..n -> FormKeys \X FormValues] : n \in 0..MaxKeys} :
            \A i, j \in 1..Len(x) : i # j => x[i][1] # x[j][1]}}

\* Any object is about to be flattened.
InitForm ==
    /\ InitStore
    /\ file = NoFile
    /\ pre = [p \in Procs |-> NoFile]
    /\ opsLeft = [p \in Procs |-> 0]
    /\ pool = {}
    /\ InitNoRun
    /\ InitNoValidate
    /\ InitNoLifecycle
    /\ InitNoCli
    /\ InitNoHttp
    /\ obj \in FormObjects
    /\ flat = NoFlat

\* multipart_dict = object_to_multipart_dict(obj)
Flatten ==
    /\ ~flat.returned
    /\ flat' = [returned |-> TRUE, result |-> ObjectToMultipartDict(obj, {}, <<>>)]
    /\ UNCHANGED <<storeVars, apiVars, runVars, valVars, lifeVars, cliVars, httpVars, obj>>

NextForm == Flatten

SpecForm == InitForm /\ [][NextForm]_vars

(* ======================= the store: concurrent use ===================== *)

Quiescent == \A p \in Procs : pc[p] = "idle"

\* The mutations of a history that returned successfully, in call order.
Mutations(h) ==
    SelectSeq(h, LAMBDA e : e.call.op \in {"set", "update_status"} /\ e.kind = "ok")

\* The mappings a successful mutation leaves when applied to m on its own
\* (none when it could not have succeeded on m).
ApplyCall(m, c) ==
    IF c.op = "set" THEN {SetItem(m, c.id, c.item)}
    ELSE IF c.id \in DOMAIN m THEN {SetStatus(m, c.id, c.status)}
    ELSE {}

\* The results of every serial order of the histories h that keeps each
\* process's own order.
RECURSIVE SerialResults(_, _)
SerialResults(h, m) ==
    IF \A p \in DOMAIN h : h[p] = <<>> THEN {m}
    ELSE UNION {UNION {SerialResults([h EXCEPT ![p] = Tail(h[p])], m2) :
                          m2 \in ApplyCall(m, Head(h[p]).call)} :
                   p \in {q \in DOMAIN h : h[q] # <<>>}}

\* C1: whenever no call is in progress, the stored mapping is the result of
\* applying every successful set / update_status in some serial order that
\* respects each process's call order (no successful mutation is lost).
C1_FinalIsSerial ==
    Quiescent =>
        Stored(file) \in SerialResults([p \in Procs |-> Mutations(hist[p])], EmptyMapping)

\* C2: a set or update_status holds the file lock from its read of the
\* mapping until its write-back has completed.
C2_LockHeldFromReadToWrite ==
    \A p \in Procs :
        (call[p].op \in {"set", "update_status"}
            /\ pc[p] \in {"read", "rel", "wacq", "wopen", "wdump", "wrel"})
        => lock = p

\* C5: every read and every write of the backing file happens while the
\* caller holds the lock, the file is incomplete only while the lock holder
\* is writing it, and no call ever reads an incomplete file.
C5_FileAccessUnderLock ==
    /\ \A p \in Procs : pc[p] \in {"read", "rel", "wopen", "wdump", "wrel"} => lock = p
    /\ (file.exists /\ ~file.complete) => (lock \in Procs /\ pc[lock] = "wdump")
    /\ \A p \in Procs : ret[p].kind # "JSONDecodeError"

\* A process is in the middle of its write (file truncated) while another
\* waits for the lock to read.
C5_Witness ==
    \E p, q \in Procs :
        /\ p # q
        /\ pc[p] = "wdump" /\ file = Truncated /\ lock = p
        /\ pc[q] = "acq"

(* ======================= the store: one process ======================== *)

\* Process 1's finished calls and the last of them.
SoloHist == hist[1]
SoloLast == SoloHist[Len(SoloHist)]
SoloPrev == SoloHist[Len(SoloHist) - 1]
SoloReturned == pc[1] = "idle" /\ Len(SoloHist) >= 1

\* m2 differs from m1 at most at key id.
SameExceptAt(m1, m2, id) ==
    /\ DOMAIN m1 \ {id} = DOMAIN m2 \ {id}
    /\ \A k \in DOMAIN m1 \ {id} : m1[k] = m2[k]

\* C6: set(id, m) leaves m under id and every other entry as it was, and a
\* get(id) that follows it returns m.
C6_RoundTrip ==
    /\ (SoloReturned /\ SoloLast.call.op = "set") =>
            /\ SoloLast.call.id \in DOMAIN Stored(file)
            /\ Stored(file)[SoloLast.call.id] = SoloLast.call.item
            /\ SameExceptAt(Stored(pre[1]), Stored(file), SoloLast.call.id)
    /\ (SoloReturned /\ Len(SoloHist) >= 2 /\ SoloLast.call.op = "get"
            /\ SoloPrev.call.op = "set" /\ SoloPrev.call.id = SoloLast.call.id) =>
            /\ ret[1].kind = "ok"
            /\ ret[1].item = SoloPrev.call.item

\* A get has returned the record of the set before it, in a store holding
\* another entry too.
C6_Witness ==
    /\ SoloReturned /\ Len(SoloHist) >= 2
    /\ SoloLast.call.op = "get" /\ SoloPrev.call.op = "set"
    /\ SoloPrev.call.id = SoloLast.call.id
    /\ ret[1] = Ok(SoloPrev.call.item, EmptyMapping)
    /\ SoloPrev.call.item.node_id # SoloPrev.call.id
    /\ DOMAIN Stored(file) = Keys

\* C7: a second update_status(id, s) right after a successful first one
\* succeeds and leaves the mapping as the first left it, with status s.
C7_UpdateIdempotent ==
    (SoloReturned /\ Len(SoloHist) >= 2
        /\ SoloLast.call.op = "update_status" /\ SoloPrev.call = SoloLast.call
        /\ SoloPrev.kind = "ok") =>
        /\ SoloLast.kind = "ok"
        /\ Stored(file) = Stored(pre[1])
        /\ Stored(file)[SoloLast.call.id].status = SoloLast.call.status

\* The same update_status has succeeded twice in a row on an entry whose
\* status was PASS before and is FAIL now.
C7_Witness ==
    /\ SoloReturned /\ Len(SoloHist) >= 2
    /\ SoloLast.call.op = "update_status" /\ SoloPrev.call = SoloLast.call
    /\ SoloPrev.kind = "ok" /\ SoloLast.kind = "ok"
    /\ SoloLast.call.status = "FAIL"
    /\ Stored(file)[SoloLast.call.id].status = "FAIL"
    /\ DOMAIN Stored(file) = Keys

\* C8: get never changes the file, and get(id) for an id the mapping lacks
\* ends in KeyError, a missing file counting as the empty mapping.
C8_GetAbsentKeyError ==
    /\ call[1].op = "get" => file = pre[1]
    /\ (SoloReturned /\ SoloLast.call.op = "get"
            /\ SoloLast.call.id \notin DOMAIN Stored(pre[1])) =>
            ret[1] = Raised("KeyError")

\* A get on a store whose file does not exist has ended in KeyError and the
\* file still does not exist.
C8_Witness ==
    /\ SoloReturned /\ SoloLast.call.op = "get"
    /\ pre[1] = NoFile /\ file = NoFile
    /\ ret[1] = Raised("KeyError")

\* C9: update_status(id, s) on an id without an entry never touches the
\* file and ends in KeyError; on an existing entry it changes that entry's
\* status to s and nothing else.
C9_UpdateStatusFrame ==
    /\ (call[1].op = "update_status" /\ call[1].id \notin DOMAIN Stored(pre[1])) =>
            /\ file = pre[1]
            /\ pc[1] = "idle" => ret[1] = Raised("KeyError")
    /\ (SoloReturned /\ SoloLast.call.op = "update_status"
            /\ SoloLast.call.id \in DOMAIN Stored(pre[1])) =>
            LET id == SoloLast.call.id
                old == Stored(pre[1])
                new == Stored(file)
            IN  /\ ret[1].kind = "ok"
                /\ id \in DOMAIN new
                /\ SameExceptAt(old, new, id)
                /\ new[id].node_id = old[id].node_id
                /\ new[id].doc_string = old[id].doc_string
                /\ new[id].requirements = old[id].requirements
                /\ new[id].status = SoloLast.call.status

\* An update_status has changed the status of one of two entries, the entry
\* carrying a docstring and a requirement.
C9_Witness ==
    /\ SoloReturned /\ SoloLast.call.op = "update_status"
    /\ SoloLast.kind = "ok"
    /\ DOMAIN Stored(pre[1]) = Keys
    /\ Stored(pre[1])[SoloLast.call.id].status # SoloLast.call.status
    /\ Stored(file)[SoloLast.call.id].requirements # <<>>

(* ========================== the plugin in a run ======================== *)

\* The calls process p has finished.
Finished(p) == {hist[p][i] : i \in 1..Len(hist[p])}

\* The tests for which an update_status of some process has succeeded.
StatusRecorded ==
    {e.call.id : e \in {f \in UNION {Finished(p) : p \in Procs} :
                            f.call.op = "update_status" /\ f.kind = "ok"}}

\* C3: once update_status has recorded PASS or FAIL for a test, every later
\* readable state of the store shows that test with a status that is set.
C3_StatusNeverUnset ==
    file.complete =>
        \A t \in StatusRecorded :
            t \in DOMAIN Stored(file) /\ Stored(file)[t].status \in {"PASS", "FAIL"}

CollectionOver == \A p \in Procs : phase[p] # "collect"

\* C4: once every process has finished its collection step the store holds
\* an entry for every discovered test, and no update_status fails for want
\* of one.
C4_AllCollected ==
    CollectionOver =>
        /\ file.complete => DOMAIN Stored(file) = ItemSet
        /\ \A p \in Procs : ret[p].kind # "KeyError"

\* The items whose collection write process 1 has completed.
Written1 == {e.call.id : e \in {f \in Finished(1) : f.call.op = "set" /\ f.kind = "ok"}}

\* C10 as stated: with the mandate on, a test that fails validation is
\* stored with an empty requirements list.
C10_InvalidStoredEmpty ==
    (mandate /\ file.complete) =>
        \A t \in Written1 \cap DOMAIN Stored(file) :
            ~ValidateRequirementTagging(t, markers[t]).valid
                => Stored(file)[t].requirements = <<>>

\* The tags of args that match the pattern or are "NA", in order; none when
\* args is empty or holds a value that is not a str.
AcceptedTags(args) ==
    IF args = <<>> \/ (\E i \in 1..Len(args) : ~args[i].str) THEN <<>>
    ELSE SelectSeq(args, LAMBDA r : MatchesPattern(r.chars) \/ r = NA)

\* C10 as amended: with the mandate on, a test that fails validation is
\* stored, with the tags of its marker that pass the pattern check (or are
\* NA) as its requirements: none for a missing marker, a non-string tag or
\* no passing tag, some otherwise.
C10_InvalidStoredAccepted ==
    (mandate /\ file.complete) =>
        \A t \in Written1 :
            ~ValidateRequirementTagging(t, markers[t]).valid =>
                /\ t \in DOMAIN Stored(file)
                /\ Stored(file)[t].requirements = AcceptedTags(markers[t])
                /\ Stored(file)[t].status = ""

\* Collection has ended in the raise, with an unsorted test stored with both
\* of its tags and a test without marker stored with none.
C10_Witness ==
    /\ mandate /\ phase[1] = "aborted" /\ file.complete
    /\ \E t, u \in ItemSet :
        /\ markers[t] = <<REQ_001_002, REQ_001_001>>
        /\ Stored(file)[t].requirements = <<REQ_001_002, REQ_001_001>>
        /\ markers[u] = <<>>
        /\ Stored(file)[u].requirements = <<>>

(* ------------ C11: the consolidated collection failure ----------------- *)

\* What the mandate makes of the first k discovered tests: every error of
\* every one of them, in test order.
RECURSIVE ErrorsOfFirst(_)
ErrorsOfFirst(k) ==
    IF k = 0 \/ ~mandate THEN <<>>
    ELSE ErrorsOfFirst(k - 1) \o ValidateRequirementTagging(items[k], markers[items[k]]).errors

\* C11: the collection hook raises InvalidTestConfigurationError only once
\* its loop is over and every discovered test has been validated and written
\* to the store; the failure carries every error of every test, in test
\* order; and the hook raises exactly when that list is not empty.
C11_RaisedOnceWithAllErrors ==
    /\ phase[1] = "aborted" =>
        /\ idx[1] = Len(items) + 1
        /\ Written1 = ItemSet
        /\ DOMAIN Stored(file) = ItemSet
        /\ errors[1] = ErrorsOfFirst(Len(items))
        /\ errors[1] # <<>>
    /\ phase[1] = "execute" => ErrorsOfFirst(Len(items)) = <<>>
    /\ phase[1] = "collect" => errors[1] = ErrorsOfFirst(idx[1] - 1)

\* C11 happens: a collection that raised with the errors of two invalid
\* tests, the first test's errors first.
C11_Witness ==
    /\ phase[1] = "aborted"
    /\ Len(items) >= 2
    /\ markers[items[1]] = <<Hello>>
    /\ markers[items[2]] = <<>>
    /\ errors[1] = <<Err(items[1], "bad_pattern", Hello),
                     Err(items[1], "no_valid_requirements", NoTag),
                     Err(items[2], "missing_marker", NoTag)>>

(* ------------- C12: the four requirement scenarios in one run ---------- *)

\* The statuses the store shows.
StoredStatuses == {Stored(file)[t].status : t \in DOMAIN Stored(file)}

\* The run was stopped by the collection failure before any test executed.
AbortedBeforeExecution ==
    /\ phase[1] = "aborted"
    /\ ran = {}
    /\ report[1] = NoReport
    /\ file.complete => "PASS" \notin StoredStatuses

\* C12 as stated: with the mandate on, the run over the four scenario tests
\* aborts before any test executes, with exactly three consolidated errors,
\* and no test status is set to PASS.
C12_ThreeErrors ==
    (mandate /\ phase[1] # "collect") =>
        /\ AbortedBeforeExecution
        /\ Len(errors[1]) = 3

\* C12 as amended: the run aborts before any test executes with exactly
\* four consolidated errors: the missing marker of the first test, the
\* pattern error of "Hello" and the no-valid-requirements error of the
\* second, the sort error of the third; and no status is set to PASS.
C12_FourErrors ==
    (mandate /\ phase[1] # "collect") =>
        /\ AbortedBeforeExecution
        /\ errors[1] = <<Err("t1", "missing_marker", NoTag),
                         Err("t2", "bad_pattern", Hello),
                         Err("t2", "no_valid_requirements", NoTag),
                         Err("t3", "not_sorted", NoTag)>>

\* C12 happens: the mandated run over the four tests has aborted, all four
\* written to the store.
C12_Witness ==
    /\ mandate
    /\ items = <<"t1", "t2", "t3", "t4">>
    /\ markers = ScenarioMarkers
    /\ phase[1] = "aborted"
    /\ file.complete
    /\ DOMAIN Stored(file) = ItemSet

(* ------------- C13: which reports the result handler records ----------- *)

\* The step hands a report to the handler on process 1.
ReportDelivered == report'[1] # report[1]

\* What the handler does with the report it is handed: a call-phase report
\* starts update_test_status(nodeid, PASS or FAIL) and nothing else; any
\* other report leaves the store, and the handler's use of it, untouched.
HandlerStep ==
    ReportDelivered =>
        IF report'[1].when = "call"
        THEN /\ pc'[1] = "acq"
             /\ call'[1] = UpdateCall(report'[1].nodeid,
                                      IF report'[1].passed THEN "PASS" ELSE "FAIL")
             /\ file' = file
        ELSE /\ report'[1].when \in {"setup", "teardown"}
             /\ UNCHANGED storeVars

\* The update a call-phase report started has returned: the test's entry
\* shows the report's outcome and every other entry is as it was.
CallReportRecorded ==
    (report[1].when = "call" /\ pc[1] = "idle") =>
        /\ ret[1].kind = "ok"
        /\ file.complete
        /\ Stored(file)[report[1].nodeid].status =
               (IF report[1].passed THEN "PASS" ELSE "FAIL")
        /\ SameExceptAt(Stored(pre[1]), Stored(file), report[1].nodeid)

\* C13: the per-test result handler changes the store only for call-phase
\* reports: a setup or teardown report, passed or failed, leaves the whole
\* mapping unchanged, and a call-phase report sets that test's status to
\* PASS if the report passed and to FAIL otherwise.
C13_OnlyCallReportsRecorded == [][HandlerStep]_vars /\ []CallReportRecorded

\* C13 happens: a failed teardown report has been handled after a passed
\* call report and the test still shows PASS, and another test whose setup
\* did not pass shows no status.
C13_Witness ==
    /\ report[1].when = "teardown"
    /\ ~report[1].passed
    /\ file.complete
    /\ Stored(file)[report[1].nodeid].status = "PASS"
    /\ \E t \in ran \ {report[1].nodeid} : Stored(file)[t].status = ""

(* ---------------- C14 .. C18: the requirement validator ---------------- *)

\* The call under study: its tags, its test and what it returned.
Tags == vin.marker_args
TagErr(rule, req) == Err(vin.test_name, rule, req)
ErrorsOfRule(rule) == SelectSeq(vout.errors, LAMBDA e : e.rule = rule)

\* a <= b in the order of Python strings, stated on its own.
RECURSIVE StrLeq(_, _)
StrLeq(a, b) ==
    IF a = <<>> THEN TRUE
    ELSE IF b = <<>> THEN FALSE
    ELSE IF a[1] < b[1] THEN TRUE
    ELSE IF a[1] > b[1] THEN FALSE
    ELSE StrLeq(Tail(a), Tail(b))

\* The tag starts with REQ-, three digits, -, three digits.
HasReqForm(s) ==
    /\ Len(s) >= 11
    /\ SubSeq(s, 1, 4) = <<82, 69, 81, 45>>
    /\ s[8] = 45
    /\ \A i \in {5, 6, 7, 9, 10, 11} : s[i] \in 48..57

Acceptable(r) == HasReqForm(r.chars) \/ r = NA

AllStrings == Tags # <<>> /\ \A i \in 1..Len(Tags) : Tags[i].str

NonDecreasing == \A i \in 2..Len(Tags) : StrLeq(Tags[i - 1].chars, Tags[i].chars)

\* C14: the result is valid exactly when its errors are empty, and exactly
\* when the tags are non-empty, all strings, non-decreasing from each tag to
\* the next, and each matching the pattern or equal to NA; validated_requirements
\* of a valid result is the input sequence.
C14_ValidIffWellTagged ==
    vout.returned =>
        /\ vout.valid <=> vout.errors = <<>>
        /\ vout.valid <=>
              (AllStrings /\ NonDecreasing /\ \A i \in 1..Len(Tags) : Acceptable(Tags[i]))
        /\ vout.valid => vout.validated_requirements = Tags

\* C14 happens: three tags in order, NA among them, found valid.
C14_Witness ==
    /\ vout.returned
    /\ Tags = <<NA, REQ_001_001, REQ_001_001x>>
    /\ vout.valid

\* C15: no tags give exactly the missing-marker error, a tag that is not a
\* string gives exactly the must-all-be-strings error; in both cases
\* validated_requirements is empty and no other rule is reported.
C15_ShortCircuit ==
    vout.returned =>
        /\ Tags = <<>> =>
              /\ vout.errors = <<TagErr("missing_marker", NoTag)>>
              /\ vout.validated_requirements = <<>>
        /\ (Tags # <<>> /\ ~AllStrings) =>
              /\ vout.errors = <<TagErr("not_all_strings", NoTag)>>
              /\ vout.validated_requirements = <<>>

\* C15 happens: a non-string tag between an out-of-order passing tag and a
\* failing one, and the only error is the one about strings.
C15_Witness ==
    /\ vout.returned
    /\ Tags = <<REQ_001_002, NonStr, Hello>>
    /\ Len(vout.errors) = 1
    /\ ~vout.valid

\* C16: for string tags the sort error is reported once when some tag is
\* smaller than the tag before it, however many such pairs there are, and
\* not at all otherwise; equal neighbours are in order.
C16_SortErrorOnce ==
    (vout.returned /\ AllStrings) =>
        /\ ErrorsOfRule("not_sorted") =
              (IF NonDecreasing THEN <<>> ELSE <<TagErr("not_sorted", NoTag)>>)
        /\ (\A i \in 2..Len(Tags) : Tags[i] = Tags[i - 1]) => ErrorsOfRule("not_sorted") = <<>>

\* C16 happens: three tags, each smaller than the one before, one sort error.
C16_Witness ==
    /\ vout.returned
    /\ Tags = <<REQ_005_002, REQ_001_002, REQ_001_001>>
    /\ vout.errors = <<TagErr("not_sorted", NoTag)>>

\* C17: for string tags there is one pattern error per occurrence of a tag
\* that neither matches the pattern nor is NA, in input order, and
\* validated_requirements is the subsequence of the other tags, whether the
\* tags are sorted or not.
C17_PatternErrorPerTag ==
    (vout.returned /\ AllStrings) =>
        LET failing == SelectSeq(Tags, LAMBDA r : ~Acceptable(r)) IN
        /\ ErrorsOfRule("bad_pattern") =
              [i \in 1..Len(failing) |-> TagErr("bad_pattern", failing[i])]
        /\ vout.validated_requirements = SelectSeq(Tags, Acceptable)

\* C17 happens: the same failing tag twice around a passing one, out of
\* order: two pattern errors and the passing tag kept.
C17_Witness ==
    /\ vout.returned
    /\ Tags = <<Hello, REQ_001_001, Hello>>
    /\ vout.errors = <<TagErr("not_sorted", NoTag), TagErr("bad_pattern", Hello),
                       TagErr("bad_pattern", Hello)>>
    /\ vout.validated_requirements = <<REQ_001_001>>

\* C18: for string tags, when every tag fails the pattern check the errors
\* end with the no-valid-requirements error, after one pattern error per
\* tag, and number the tags plus one, plus one more when the tags are out
\* of order; with a passing tag that error is absent.
C18_NoValidRequirements ==
    (vout.returned /\ AllStrings) =>
        IF \A i \in 1..Len(Tags) : ~Acceptable(Tags[i])
        THEN /\ Len(vout.errors) = Len(Tags) + 1 + (IF NonDecreasing THEN 0 ELSE 1)
             /\ vout.errors[Len(vout.errors)] = TagErr("no_valid_requirements", NoTag)
             /\ \A i \in 1..Len(Tags) :
                   vout.errors[Len(vout.errors) - 1 - Len(Tags) + i] =
                       TagErr("bad_pattern", Tags[i])
             /\ Len(ErrorsOfRule("no_valid_requirements")) = 1
        ELSE ErrorsOfRule("no_valid_requirements") = <<>>

\* C18 happens: two failing tags out of order give four errors, the last
\* one the no-valid-requirements error.
C18_Witness ==
    /\ vout.returned
    /\ Tags = <<REQ_01_001, Hello>>
    /\ ~NonDecreasing
    /\ Len(vout.errors) = 4
    /\ vout.errors[4] = TagErr("no_valid_requirements", NoTag)

(* -------------------- C19, C20: the CSV report ------------------------- *)

\* The session-finish hook of process 1 is over, with a report destination.
ReportAttempted == phase[1] \in {"finished", "finish_raised"} /\ reporting.configured

\* The snapshot that hook took.
Snapshot == ret[1].map

\* The entries of the snapshot the report has to show.
Reported ==
    {t \in DOMAIN Snapshot :
        ~(reporting.omit_unexecuted_tests /\ Snapshot[t].status = "")}

\* C19: at session finish with a report destination and a non-empty
\* snapshot the report has one header row and one data row per entry of the
\* snapshot, less exactly the entries with an unset status when
\* omit_unexecuted_tests is on; if that leaves out every entry the report
\* still has its header row, and no data row.
C19_HeaderAndRowPerEntry ==
    (ReportAttempted /\ DOMAIN Snapshot # {}) =>
        /\ phase[1] = "finished"
        /\ csv.exists
        /\ csv.header = Fieldnames
        /\ Len(csv.rows) = Cardinality(Reported)
        /\ \A t \in Reported : \E i \in 1..Len(csv.rows) : csv.rows[i] = Snapshot[t]
        /\ Reported = {} => csv.rows = <<>>

\* C19 happens: with omit_unexecuted_tests on, a snapshot of one executed
\* and one unexecuted test gave a report of one data row.
C19_Witness ==
    /\ ReportAttempted
    /\ reporting.omit_unexecuted_tests
    /\ Cardinality(DOMAIN Snapshot) = 2
    /\ \E t \in DOMAIN Snapshot : Snapshot[t].status = ""
    /\ Len(csv.rows) = 1
    /\ csv.rows[1].status = "FAIL"

\* C20: at session finish with a report destination and an empty snapshot
\* the plugin fails with an error and leaves no headerless or empty file
\* at the destination.
C20_EmptySnapshotLeavesNoFile ==
    (ReportAttempted /\ DOMAIN Snapshot = {}) =>
        /\ phase[1] = "finish_raised"
        /\ ~(csv.exists /\ csv.header = <<>>)

(* ------------- C21: who writes the report in a distributed run --------- *)

\* C21: in a distributed run only the controller writes the report: the
\* session-finish handler of a worker never opens the report destination.
C21_OnlyControllerWritesReport ==
    \A p \in Procs : is_running_on_worker[p] => p \notin opened

(* ----------- C22 .. C25: session identity and the debugger ------------- *)

\* The identifier of the run, once generated.
RunId == uuids[1].id

\* One identifier at most, made by the controller, in place from its
\* session start on; no worker Config ever carries session fields of its own.
OneSessionId ==
    /\ Len(uuids) <= 1
    /\ \A i \in 1..Len(uuids) : uuids[i].by = Main
    /\ stage[Main] = "started" =>
          /\ Len(uuids) = 1
          /\ session_config[Main].set
          /\ session_config[Main].global_session_id = RunId
          /\ session_config[Main].temp_shared_session_dir_path =
                 <<"BASE_DIR", ".pytest_run_cache", RunId>>
    /\ \A w \in WorkerNodes : ~session_config[w].set

\* The identifier is generated by the controller's session start, before
\* any worker is configured, and nothing set is changed afterwards.
SessionIdStep ==
    /\ uuids' # uuids =>
          /\ stage[Main] = "ready" /\ stage'[Main] = "started"
          /\ \A w \in WorkerNodes : stage[w] = "unspawned" /\ ~workerinput[w].present
    /\ \A n \in Nodes : session_config[n].set => session_config'[n] = session_config[n]
    /\ \A n \in Nodes : workerinput[n].present => workerinput'[n] = workerinput[n]

\* C22: the session identifier is generated exactly once in a run, by the
\* controller at its session start and before any worker is configured; no
\* worker generates one; and once created the identifier and the shared
\* directory path are changed by no later lifecycle event on any process.
C22_SessionIdGeneratedOnce == [][SessionIdStep]_vars /\ []OneSessionId

\* C22 happens: the controller and two workers have started and the
\* controller has received all its lifecycle events, with one identifier.
C22_Witness ==
    /\ \A n \in {Main, 1, 2} : stage[n] = "started"
    /\ events[Main] = 0
    /\ events[1] = 0
    /\ Len(uuids) = 1

\* C23: every worker's store handle and the controller's are built from
\* the one session identifier and name the same backing file and lock file;
\* the identifier in a worker's configuration is the one the controller
\* generated; a worker's scratch path is <session_dir>/<worker_id>, distinct
\* for distinct workers.
C23_SameStoreEverywhere ==
    /\ \A w \in WorkerNodes : workerinput[w].present =>
          /\ workerinput[w].global_session_id = RunId
          /\ workerinput[w].temp_shared_session_dir_path = <<"BASE_DIR", ".pytest_run_cache", RunId>>
          /\ workerinput[w].temp_worker_dir_path =
                 <<"BASE_DIR", ".pytest_run_cache", RunId, WorkerId(w)>>
    /\ \A w, v \in WorkerNodes : (w # v /\ workerinput[w].present /\ workerinput[v].present) =>
          workerinput[w].temp_worker_dir_path # workerinput[v].temp_worker_dir_path
    /\ \A n \in Nodes : plugin[n].registered =>
          /\ plugin[n].collected_tests.temp_file_path =
                 <<"BASE_DIR", ".pytest_run_cache", RunId, "test.temp.json">>
          /\ plugin[n].collected_tests.temp_file_lock_path =
                 <<"BASE_DIR", ".pytest_run_cache", RunId, "test.temp.json.lock">>
          /\ plugin[n].collected_tests = plugin[Main].collected_tests

\* C23 happens: two workers hold a store handle next to the controller's.
C23_Witness ==
    /\ plugin[Main].registered
    /\ plugin[1].registered
    /\ plugin[2].registered
    /\ plugin[1].collected_tests = plugin[2].collected_tests
    /\ workerinput[1].temp_worker_dir_path # workerinput[2].temp_worker_dir_path

\* C24: get_internal_shared_config never throws and returns the run's
\* session identifier and shared directory path whenever it is called, on
\* the controller and on a worker, before and after session start.
C24_AccessorNeverThrows ==
    acc.called =>
        /\ ~acc.raised
        /\ Len(uuids) = 1
        /\ acc.global_session_id = RunId
        /\ acc.temp_shared_session_dir_path = <<"BASE_DIR", ".pytest_run_cache", RunId>>

\* C25: whatever lifecycle points call auto_engage_debugger, and however
\* often, the listener is bound at most once on a process, never on a
\* worker, and never when CI is "true".
C25_DebuggerBoundOnce ==
    \A n \in Nodes :
        /\ listens[n] <= 1
        /\ n \in WorkerNodes => listens[n] = 0
        /\ env.CI = <<116, 114, 117, 101>> => listens[n] = 0

\* C25 happens: the controller bound the listener and then went through
\* all its other lifecycle points, next to a started worker.
C25_Witness ==
    /\ listens[Main] = 1
    /\ plugin[Main].debugger_listening
    /\ stage[Main] = "started" /\ events[Main] = 0
    /\ stage[1] = "started" /\ events[1] = 0
    /\ env.auto_debug

(* --------- C26, C27: MonkeyPatchedArgsWithExpandedRepeats -------------- *)

\* C26: after the context has been entered and exited, sys.argv is the
\* argv that was in place when the context was entered.
C26_ArgvRestored == ctx.state = "exited" => argv = ctx.entry_argv

\* C26 happens: a context that changed the command line has been left.
C26_Witness ==
    /\ ctx.state = "exited"
    /\ argv = <<<<45, 45, 102>>, <<97>>, <<98>>, <<45, 100>>>>
    /\ <<45, 45, 102>> \in args_to_expand
    /\ original_args = argv

\* The argument is an option: it begins with "-".
IsOption(arg) == arg # <<>> /\ Head(arg) = 45

\* The places before i that hold a flag to expand with nothing but values
\* between them and i.
OwnersOf(args, i) ==
    {j \in 1..(i - 1) : args[j] \in args_to_expand
                        /\ \A k \in (j + 1)..i : ~IsOption(args[k])}

\* What becomes of the argument at i: a flag to expand vanishes (it comes
\* back before each of its values), a value of such a flag is preceded by
\* the flag, any other argument stays.
PieceOf(args, i) ==
    IF args[i] \in args_to_expand THEN <<>>
    ELSE IF OwnersOf(args, i) # {}
    THEN <<args[CHOOSE j \in OwnersOf(args, i) : \A k \in OwnersOf(args, i) : k <= j], args[i]>>
    ELSE <<args[i]>>

RECURSIVE ExpandedUpTo(_, _)
ExpandedUpTo(args, k) ==
    IF k = 0 THEN <<>> ELSE ExpandedUpTo(args, k - 1) \o PieceOf(args, k)

\* C27: inside the context sys.argv is the original argv with every
\* occurrence of a flag F of args_to_expand and its values v1..vk (up to
\* the next argument starting with "-", or the end) replaced by
\* F v1 F v2 ... F vk, every other argument unchanged and in its place.
C27_ArgvExpanded ==
    ctx.state = "in" => argv = ExpandedUpTo(ctx.entry_argv, Len(ctx.entry_argv))

\* C27 happens: "--f a b -d" has become "--f a --f b -d" inside the context.
C27_Witness ==
    /\ ctx.state = "in"
    /\ ctx.entry_argv = <<<<45, 45, 102>>, <<97>>, <<98>>, <<45, 100>>>>
    /\ args_to_expand = {<<45, 45, 102>>}
    /\ argv = <<<<45, 45, 102>>, <<97>>, <<45, 45, 102>>, <<98>>, <<45, 100>>>>

(* --------- C28: precedence of the guards of serve_static_path ---------- *)

\* The URL path the guards look at.
GuardedPath ==
    IF http.url_path.is_none \/ http.url_path.value = <<>> THEN http.request.path
    ELSE http.url_path.value

\* Some pattern of the list matches the guarded path.
Matches(patterns) == ~patterns.is_none /\ AnySearch(patterns.value, GuardedPath)

\* The answer by the precedence 404, 403, login redirect, file.
ByPrecedence ==
    IF http.config.block_bare_html_access /\ EndsWith(GuardedPath, DotHtml)
    THEN "HttpResponseNotFound"
    ELSE IF Matches(http.config.forbidden_path_patterns) THEN "HttpResponseForbidden"
    ELSE IF Matches(http.config.auth_required_path_patterns) THEN "HttpResponseRedirect"
    ELSE "FileResponse"

\* The answer follows the precedence, serve is called iff no guard fired,
\* redirect_to_login is called iff the answer is the redirect, with next
\* the full path requested.
PrecedenceHolds ==
    /\ resp.kind = ByPrecedence
    /\ resp.serve_called <=> ByPrecedence = "FileResponse"
    /\ resp.redirect_to_login_called <=> resp.kind = "HttpResponseRedirect"
    /\ resp.redirect_to_login_called => resp.next = GetFullPath(http.request)

\* An answered GET request of an unauthenticated user.
AnsweredAnonymousGet ==
    resp.returned /\ http.request.method = "GET" /\ ~http.request.is_authenticated

RECURSIVE LeavesOf(_, _)
LeavesOf(val, key) ==
    CASE val.type = "leaf" -> {<<key, val>>}
      [] val.type = "dict" ->
            UNION {LeavesOf(val.items[k][2], key \o <<91>> \o val.items[k][1] \o <<93>>) :
                       k \in 1..Len(val.items)}
      [] OTHER ->
            UNION {LeavesOf(val.items[k][2], key \o <<91>> \o Decimal(k - 1) \o <<93>>) :
                       k \in 1..Len(val.items)}

\* The leaves of the object, the top-level keys bare.
LeavesOfObject ==
    UNION {LeavesOf(obj.items[k][2], obj.items[k][1]) : k \in 1..Len(obj.items)}

\* C29: whatever the order of the keys, the result holds every leaf of the
\* object once, under its bracket-notation key, and nothing else.
C29_EveryLeafFlattened == flat.returned => flat.result = LeavesOfObject

(* --------- C30: every store operation completes ------------------------ *)

\* A process that is not inside an operation does not hold the lock.
LockReleasedOnExit == \A p \in Procs : pc[p] = "idle" => lock # p

\* C30: with no process crashing while it holds the lock, every operation a
\* process has started (get, set, update_status, snapshot) completes, and
\* the lock is released on every exit path, the KeyError exits of get and
\* update_status included.
C30_EveryOperationCompletes ==
    /\ \A p \in Procs : (pc[p] # "idle") ~> (pc[p] = "idle")
    /\ []LockReleasedOnExit

\* C30 happens: a get and an update_status have failed with KeyError while
\* another process waits for the lock, which is free again.
C30_Witness ==
    \E p, q \in Procs :
        /\ p # q
        /\ pc[p] = "idle"
        /\ \E i, j \in 1..Len(hist[p]) :
              /\ hist[p][i].call.op = "get" /\ hist[p][i].kind = "KeyError"
              /\ hist[p][j].call.op = "update_status" /\ hist[p][j].kind = "KeyError"
        /\ pc[q] \in {"acq", "wacq"}
        /\ lock = 0

====
